---- MODULE Spec2Model ----
(***************************************************************************)
(* AstroShell dome controller (domecontrol_JK3.ino, rev9 / v3.3).          *)
(*                                                                         *)
(* Two execution contexts share the motor state: the Timer2 interrupt      *)
(* service routine (~61 Hz, "tick") and the main loop (network watchdog,   *)
(* IP monitor, web client).  Each handler is one atomic action here; the   *)
(* limit switches, the Ethernet link and the clock are the environment.    *)
(*                                                                         *)
(* Limit switch names follow the source: limopen[m] is the switch the      *)
(* source calls lim<m>open, which detects the shutter physically CLOSED;   *)
(* the motor command OPEN physically closes the shutter.                   *)
(***************************************************************************)
EXTENDS Integers, FiniteSets, Sequences, TLC

\* ------------------------------------------------------------ constants

Motors == {1, 2}

\* motor direction commands (0 = motor off)
OPEN == 1
CLOSE == 2

\* Soft-start step and the PWM ceiling of a byte.  The source steps by 30;
\* the model steps by SMOOTH so that a run of TimeoutTicks ticks goes through
\* the adding branch and the saturating branch of the ramp.
SMOOTH == 128
PWM_MAX == 255
ByteModulus == 256

\* Motor timeouts in ISR ticks.  The source sets all four to 6527; the model
\* runs them scaled down to TimeoutTicks.
TimeoutTicks == 2
MAX_MOT1_OPEN == TimeoutTicks
MAX_MOT1_CLOSE == TimeoutTicks
MAX_MOT2_OPEN == TimeoutTicks
MAX_MOT2_CLOSE == TimeoutTicks

\* The debounce counter saturates at 100 in the source; every value above
\* DebounceTicks behaves alike, so the model saturates it at CntCap.
DebounceTicks == 6
CntCap == 7

\* The clock is counted in units of 15 s: connectCheckInterval 60000 ms and
\* maxFailTimeWindow 300000 ms.
connectCheckInterval == 4
maxFailTimeWindow == 20
maxConnectFails == 5
\* the longest time since the last probe the model tells apart
SinceCap == 6

\* The watchdog and the delays and timeouts of the main loop are counted in
\* units of 10 ms: WDTO_8S 8 s, the chip select pulse delay(100), the
\* stabilisation delay(5000), the retry delay(2000), the probe timeout 3000,
\* the log timeout 2000, the send delay(50), the web request timeout 1500.
WDTO_8S == 800
ResetPulse == 10
StabilizeDelay == 500
RetryDelay == 200
SetupAttempts == 3
ProbeTimeout == 300
LogTimeout == 200
LogSendDelay == 5
WebTimeout == 150

\* totalIpFailures and totalAutoCloses are unsigned 16-bit counters; the
\* model keeps them modulo UIntModulus.
UIntModulus == 2

\* EEPROM memory map; an unprogrammed cell reads ByteModulus - 1
EEPROM_MAGIC_BYTE == 66
EEPROM_ADDR_MAGIC == 0
EEPROM_ADDR_TOTAL_IP_FAILS == 1
EEPROM_ADDR_AUTO_CLOSES == 3
EEPROM_ADDR_LAST_FAIL_DAY == 5
EepromCells == 0..5

\* saveCountersToEEPROM() writes when more than 300000 ms (SaveInterval clock
\* units) have passed since the last write
SaveInterval == 20

\* dayCounter wraps to 0 above 250 in the source, above DayWrap in the model
DayWrap == 2

\* the tick counters of the run recorder are words; the model saturates them
TickCap == 3

\* the connections counted for one queued record
PushCap == 2

\* stop reasons
R_LIMIT == 0
R_BUTTON == 1
R_WEB == 2
R_IPFAIL == 3
R_VCCFAIL == 4
R_TIMEOUT == 5

Buttons == <<"SW1up", "SW1down", "SW2up", "SW2down">>
ButtonNames == {Buttons[i] : i \in 1..4}

VARIABLES
  motdir,          \* mot1dir, mot2dir
  motspeed,        \* mot1speed, mot2speed
  mottimer,        \* mot1timer, mot2timer
  stopreason,      \* stop1reason, stop2reason
  AutoClosedByIP,  \* m1AutoClosedByIP, m2AutoClosedByIP
  cnt,             \* debounce counter
  pressed_flag,    \* sw1up_pressed_flag ... sw2down_pressed_flag
  swstop_pressed_flag,
  limopen,         \* digitalRead(lim1open), digitalRead(lim2open)
  limclosed,       \* digitalRead(lim1closed), digitalRead(lim2closed)
  link,            \* Ethernet.linkStatus() == LinkON
  networkMonitoringEnabled,
  ethernet_initialized,
  wasLinkDown,
  cableRemovalAutoCloseTriggered,
  connectFailCount,
  firstFailSet,    \* firstFailTimestamp != 0
  failElapsed,     \* millis() - firstFailTimestamp, saturating above the window
  sinceAttempt,    \* millis() - lastConnectAttemptTimestamp, saturating at SinceCap
  totalIpFailures,
  totalAutoCloses,
  runTicks,        \* history: ticks seen by each motor since its last start command
  eeprom,          \* the EEPROM cells 0..5
  eepromDirty,
  sinceSave,       \* millis() - lastSave, saturating above SaveInterval
  dayCounter,
  tickLoggingEnabled,
  tick_counter,    \* m1_tick_counter, m2_tick_counter
  full_run_active,
  was_closing,
  prev_dir,
  last_ticks_closing,
  last_ticks_opening,
  last_direction,
  data_ready,
  interrupt_ticks,
  interrupt_direction,
  interrupt_ready,
  tick_pushes,     \* history: connect results for the queued full-run record
  interrupt_pushes, \* history: connect results for the queued interrupt record
  statusReply,     \* the last plain text status sent to a web client
  loopAt,          \* the call loop() makes next
  wdtElapsed,      \* time since the last wdt_reset(), saturating at WDTO_8S
  mainAt           \* where the main loop stands inside a handler the ISR can preempt

motorVars == <<motdir, motspeed, mottimer, stopreason, AutoClosedByIP, runTicks>>
buttonVars == <<cnt, pressed_flag, swstop_pressed_flag>>
sensorVars == <<limopen, limclosed>>
netVars == <<link, networkMonitoringEnabled, ethernet_initialized, wasLinkDown>>
monitorVars == <<cableRemovalAutoCloseTriggered, connectFailCount, firstFailSet,
                 failElapsed, sinceAttempt>>
counterVars == <<totalIpFailures, totalAutoCloses>>
storeVars == <<eeprom, eepromDirty, sinceSave, dayCounter>>
trackVars == <<tick_counter, full_run_active, was_closing, prev_dir>>
recordVars == <<last_ticks_closing, last_ticks_opening, last_direction, data_ready,
                interrupt_ticks, interrupt_direction, interrupt_ready>>
pushVars == <<tick_pushes, interrupt_pushes>>
recorderVars == <<tickLoggingEnabled, trackVars, recordVars, pushVars>>
webVars == <<statusReply>>
wdtVars == <<loopAt, wdtElapsed>>
preemptVars == <<mainAt>>
vars == <<motorVars, buttonVars, sensorVars, netVars, monitorVars, counterVars,
          storeVars, recorderVars, webVars, wdtVars, preemptVars>>

Min(a, b) == IF a < b THEN a ELSE b

\* the calibrated timeout loaded by a start of motor m in direction d
MaxTimer(m, d) ==
  IF m = 1 THEN (IF d = OPEN THEN MAX_MOT1_OPEN ELSE MAX_MOT1_CLOSE)
           ELSE (IF d = OPEN THEN MAX_MOT2_OPEN ELSE MAX_MOT2_CLOSE)

\* the limit switch that ends a run in direction d
LimitOf(m, d) == IF d = OPEN THEN limopen[m] ELSE limclosed[m]

\* ------------------------------------------------ EEPROM counter store

\* a put that writes the low byte and leaves the high byte as it was
PutLowByte(ee, addr, v) == [ee EXCEPT ![addr] = v % ByteModulus]

\* EEPROM.put of an unsigned int: low byte at addr, high byte at addr + 1
Put(ee, addr, v) ==
  [ee EXCEPT ![addr] = v % ByteModulus,
             ![addr + 1] = (v \div ByteModulus) % ByteModulus]

\* EEPROM.get of an unsigned int
Get(ee, addr) == ee[addr] + ByteModulus * ee[addr + 1]

\* EEPROM.write of one byte
Write(ee, addr, b) == [ee EXCEPT ![addr] = b % ByteModulus]

\* an EEPROM that was never written
Erased == [a \in EepromCells |-> ByteModulus - 1]

\* the EEPROM holding the magic byte and the three counters
Image(ipf, acl, day) ==
  Write(Put(Put(Write(Erased, EEPROM_ADDR_MAGIC, EEPROM_MAGIC_BYTE),
                EEPROM_ADDR_TOTAL_IP_FAILS, ipf),
            EEPROM_ADDR_AUTO_CLOSES, acl),
        EEPROM_ADDR_LAST_FAIL_DAY, day)

\* what the store functions work on
StoreState ==
  [ee |-> eeprom, dirty |-> eepromDirty, since |-> sinceSave, day |-> dayCounter]

\* "if (eepromDirty && (millis() - lastSave > 300000UL))"
SaveDue(T) == T.dirty /\ T.since > SaveInterval

\* a save that writes the failure counter and the day only
saveIpFailuresToEEPROM(T, ipf, acl) ==
  IF SaveDue(T)
    THEN [T EXCEPT !.ee = Write(Put(@, EEPROM_ADDR_TOTAL_IP_FAILS, ipf),
                                EEPROM_ADDR_LAST_FAIL_DAY, T.day),
                   !.since = 0, !.dirty = FALSE]
    ELSE T

\* saveCountersToEEPROM() with the counters ipf and acl in memory
saveCountersToEEPROM(T, ipf, acl) ==
  IF SaveDue(T)
    THEN [T EXCEPT !.ee = Write(Put(Put(@, EEPROM_ADDR_TOTAL_IP_FAILS, ipf),
                                    EEPROM_ADDR_AUTO_CLOSES, acl),
                                EEPROM_ADDR_LAST_FAIL_DAY, T.day),
                   !.since = 0, !.dirty = FALSE]
    ELSE T

\* initializeEEPROM() on EEPROM ee: the EEPROM and the counters in memory
\* afterwards (the counters are 0 in memory before it runs)
initializeEEPROM(ee) ==
  IF ee[EEPROM_ADDR_MAGIC] # EEPROM_MAGIC_BYTE
    THEN [ee |-> Write(Put(Put(Write(ee, EEPROM_ADDR_MAGIC, EEPROM_MAGIC_BYTE),
                               EEPROM_ADDR_TOTAL_IP_FAILS, 0),
                           EEPROM_ADDR_AUTO_CLOSES, 0),
                       EEPROM_ADDR_LAST_FAIL_DAY, 0),
          ipf |-> 0, acl |-> 0, day |-> 0]
    ELSE [ee |-> ee,
          ipf |-> Get(ee, EEPROM_ADDR_TOTAL_IP_FAILS),
          acl |-> Get(ee, EEPROM_ADDR_AUTO_CLOSES),
          day |-> ee[EEPROM_ADDR_LAST_FAIL_DAY]]

\* incrementDayCounter() once 24 hours have passed
incrementDayCounter(T) ==
  LET day == IF T.day + 1 > DayWrap THEN 0 ELSE T.day + 1
  IN  [T EXCEPT !.day = day, !.dirty = TRUE,
                !.ee = Write(@, EEPROM_ADDR_LAST_FAIL_DAY, day)]

SetStore(T) ==
  /\ eeprom' = T.ee
  /\ eepromDirty' = T.dirty
  /\ sinceSave' = T.since
  /\ dayCounter' = T.day

\* loop(): saveCountersToEEPROM()
LoopSave ==
  /\ SetStore(saveCountersToEEPROM(StoreState, totalIpFailures, totalAutoCloses))
  /\ UNCHANGED <<motorVars, buttonVars, sensorVars, netVars, monitorVars,
                 counterVars, recorderVars, webVars, wdtVars, preemptVars>>

\* loop(): incrementDayCounter() when its 24 hours have passed
LoopDay ==
  /\ SetStore(incrementDayCounter(StoreState))
  /\ UNCHANGED <<motorVars, buttonVars, sensorVars, netVars, monitorVars,
                 counterVars, recorderVars, webVars, wdtVars, preemptVars>>

\* ------------------------------------------------ Timer2 interrupt (tick)

\* one motor's share of the ISR state
MotorRec(m) ==
  [dir |-> motdir[m], speed |-> motspeed[m], timer |-> mottimer[m],
   reason |-> stopreason[m], auto |-> AutoClosedByIP[m], run |-> runTicks[m]]

\* the state the ISR works on
IsrState ==
  [mot |-> [m \in Motors |-> MotorRec(m)], cnt |-> cnt,
   pressed |-> pressed_flag, swflag |-> swstop_pressed_flag]

\* what one tick reads from the buttons: SWSTOP and the direction buttons held
MaxButtonsDown == 1
TickInputs ==
  {[stop |-> s, down |-> d] :
     s \in BOOLEAN, d \in {D \in SUBSET ButtonNames : Cardinality(D) <= MaxButtonsDown}}

\* a latch that knows the VCC-fail reason only
FailsafeLatchedPowerOnly(r) == r.reason = R_VCCFAIL

\* "preserve IP-fail and VCC-fail reasons for display"
FailsafeLatched(r) == (r.reason = R_IPFAIL /\ r.auto) \/ r.reason = R_VCCFAIL

\* a motor stopped by a button, SWSTOP
OperatorStopped(r) == [r EXCEPT !.dir = 0, !.reason = R_BUTTON, !.auto = FALSE]

\* if (cnt < 100) cnt++
DebounceCount(c) == IF c < CntCap THEN c + 1 ELSE c

\* history only: a motor running when the tick begins has seen one more tick
CountTick(r) == IF r.dir # 0 THEN [r EXCEPT !.run = @ + 1] ELSE r

\* --- EMERGENCY STOP BUTTON ---
EmergencyStop(S, stop) ==
  IF stop
    THEN IF ~S.swflag
           THEN [S EXCEPT
                   !.mot = IF \E m \in Motors : S.mot[m].dir # 0
                             THEN [m \in Motors |-> OperatorStopped(S.mot[m])]
                             ELSE @,
                   !.swflag = TRUE]
           ELSE S
    ELSE [S EXCEPT !.swflag = FALSE]

\* --- STOP REASON MANAGEMENT ---
StopReasonManagement(r, lo, lc) ==
  IF r.dir = 0 /\ (lo \/ lc) /\ ~FailsafeLatched(r)
    THEN [r EXCEPT !.reason = R_LIMIT]
    ELSE r

\* --- LIMIT SWITCH DETECTION ---
\* the inverted switch names taken at their word: lim<m>open stops CLOSE
LimitOpenCmdByName(r, lo) ==
  IF lo /\ r.dir = CLOSE
    THEN [r EXCEPT !.dir = 0, !.reason = R_LIMIT, !.auto = FALSE]
    ELSE r

LimitOpenCmd(r, lo) ==
  IF lo /\ r.dir = OPEN
    THEN [r EXCEPT !.dir = 0,
                   !.reason = IF FailsafeLatched(r) THEN @ ELSE R_LIMIT,
                   !.auto = FALSE]
    ELSE r

LimitCloseCmd(r, lc) ==
  IF lc /\ r.dir = CLOSE
    THEN [r EXCEPT !.dir = 0, !.reason = R_LIMIT, !.auto = FALSE]
    ELSE r

LimitSwitchDetection(r, lo, lc) == LimitCloseCmd(LimitOpenCmd(r, lo), lc)

\* --- MOTOR TIMEOUT COUNTDOWN ---
\* decrement first, then test: the motor stops on the tick that counts to zero
TimeoutCountdownEager(r) ==
  IF r.dir # 0
    THEN IF r.timer > 1
           THEN [r EXCEPT !.timer = @ - 1]
           ELSE IF FailsafeLatched(r)
                  THEN [r EXCEPT !.dir = 0, !.timer = 0]
                  ELSE [r EXCEPT !.dir = 0, !.timer = 0, !.reason = R_TIMEOUT,
                                 !.auto = FALSE]
    ELSE r

TimeoutCountdown(r) ==
  IF r.dir # 0
    THEN IF r.timer # 0
           THEN [r EXCEPT !.timer = @ - 1]
           ELSE IF FailsafeLatched(r)
                  THEN [r EXCEPT !.dir = 0]
                  ELSE [r EXCEPT !.dir = 0, !.reason = R_TIMEOUT, !.auto = FALSE]
    ELSE r

\* --- MOTOR PWM OUTPUT --- (soft start, byte arithmetic)
\* the ramp without its ceiling: the byte wraps around
SoftStartWrapping(r) ==
  IF r.dir = 0
    THEN [r EXCEPT !.speed = 0]
    ELSE [r EXCEPT !.speed = (@ + SMOOTH) % ByteModulus]

SoftStart(r) ==
  IF r.dir = 0
    THEN [r EXCEPT !.speed = 0]
    ELSE IF r.speed < PWM_MAX - SMOOTH
           THEN [r EXCEPT !.speed = (@ + SMOOTH) % ByteModulus]
           ELSE [r EXCEPT !.speed = PWM_MAX]

\* --- PHYSICAL BUTTON HANDLING ---
ButtonMotor(b) == IF b \in {"SW1up", "SW1down"} THEN 1 ELSE 2
ButtonDir(b) == IF b \in {"SW1up", "SW2up"} THEN OPEN ELSE CLOSE

\* a start command that leaves the failsafe flag as it finds it
StartedKeepingFlag(r, m, d) ==
  [r EXCEPT !.dir = d, !.timer = MaxTimer(m, d), !.reason = R_LIMIT, !.run = 0]

\* a start command: direction, calibrated timeout, stop reason cleared
Started(r, m, d) ==
  [r EXCEPT !.dir = d, !.timer = MaxTimer(m, d), !.reason = R_LIMIT,
            !.auto = FALSE, !.run = 0]

\* a toggle that starts an idle motor without looking at the limit switch
ButtonToggleIgnoringLimit(r, m, d) ==
  IF r.dir # 0 THEN OperatorStopped(r) ELSE Started(r, m, d)

\* toggle: a running motor stops, a stopped one starts unless at the limit
ButtonToggle(r, m, d) ==
  IF r.dir # 0 THEN OperatorStopped(r)
  ELSE IF ~LimitOf(m, d) THEN Started(r, m, d)
  ELSE r

\* acceptance that does not look at the pressed flag
ButtonAcceptedUnflagged(S, b, down) == b \in down /\ S.cnt > DebounceTicks

ButtonAccepted(S, b, down) == b \in down /\ S.cnt > DebounceTicks /\ ~S.pressed[b]

ButtonHandling(S, b, down) ==
  IF ButtonAccepted(S, b, down)
    THEN [S EXCEPT !.pressed[b] = TRUE, !.cnt = 0,
                   !.mot[ButtonMotor(b)] = ButtonToggle(@, ButtonMotor(b), ButtonDir(b))]
    ELSE S

AllButtons(S, down) ==
  ButtonHandling(ButtonHandling(ButtonHandling(ButtonHandling(S,
    Buttons[1], down), Buttons[2], down), Buttons[3], down), Buttons[4], down)

\* --- BUTTON RELEASE DETECTION ---
ButtonRelease(S, down) ==
  [S EXCEPT !.pressed = [b \in ButtonNames |-> IF b \in down THEN @[b] ELSE FALSE]]

\* the motor sections without the timeout countdown
MotorSectionsUntimed(r, lo, lc) ==
  SoftStart(LimitSwitchDetection(StopReasonManagement(r, lo, lc), lo, lc))

\* the motor sections between the emergency stop and the buttons
MotorSections(r, lo, lc) ==
  SoftStart(TimeoutCountdown(LimitSwitchDetection(StopReasonManagement(r, lo, lc), lo, lc)))

\* the ISR from the debounce counter to the PWM section, run on state S
BeforeButtons(S, in) ==
  LET S0 == [S EXCEPT !.cnt = DebounceCount(@),
                      !.mot = [m \in Motors |-> CountTick(@[m])]]
      S1 == EmergencyStop(S0, in.stop)
  IN  [S1 EXCEPT !.mot = [m \in Motors |->
                            MotorSections(@[m], limopen[m], limclosed[m])]]

\* the motor control of one ISR run on state S, in source order
IsrFrom(S, in) ==
  ButtonRelease(AllButtons(BeforeButtons(S, in), in.down), in.down)

\* the motor control of the ISR run on the current state
IsrResult(in) == IsrFrom(IsrState, in)

\* the motor control of the ISR alone: the tick logging section writes only
\* variables that no motor decision reads
TickControl(in) ==
  \E S \in {IsrResult(in)} :
  /\ motdir' = [m \in Motors |-> S.mot[m].dir]
  /\ motspeed' = [m \in Motors |-> S.mot[m].speed]
  /\ mottimer' = [m \in Motors |-> S.mot[m].timer]
  /\ stopreason' = [m \in Motors |-> S.mot[m].reason]
  /\ AutoClosedByIP' = [m \in Motors |-> S.mot[m].auto]
  /\ runTicks' = [m \in Motors |-> S.mot[m].run]
  /\ cnt' = S.cnt
  /\ pressed_flag' = S.pressed
  /\ swstop_pressed_flag' = S.swflag
  /\ UNCHANGED <<sensorVars, netVars, monitorVars, counterVars, storeVars,
                 recorderVars, webVars, wdtVars, preemptVars>>

\* ------------------------------------------------- tick logging in the ISR

\* the tick logging variables of motor m
TrackState(m) ==
  [counter |-> tick_counter[m], active |-> full_run_active[m],
   closing |-> was_closing[m], prev |-> prev_dir[m],
   lastc |-> last_ticks_closing[m], lasto |-> last_ticks_opening[m],
   lastdir |-> last_direction[m], ready |-> data_ready[m],
   iticks |-> interrupt_ticks[m], idir |-> interrupt_direction[m],
   iready |-> interrupt_ready[m],
   pushes |-> tick_pushes[m], ipushes |-> interrupt_pushes[m]]

\* "Detect motor START (transition from stopped to running)"
DetectStart(T, dir, lo, lc) ==
  IF dir # 0 /\ T.prev = 0
  THEN IF lc \/ lo
       THEN [T EXCEPT !.active = TRUE, !.counter = 0, !.closing = (dir = OPEN)]
       ELSE [T EXCEPT !.active = FALSE]
  ELSE T

\* "Count ticks while motor is running and full-run is active"
CountRunTick(T, dir) ==
  IF dir # 0 /\ T.active THEN [T EXCEPT !.counter = Min(@ + 1, TickCap)] ELSE T

\* the recorder meets its record branch: the motor "just stopped" in a full run
Recorded(T, dir) == dir = 0 /\ T.prev # 0 /\ T.active

\* the run reached the limit switch it was heading for
AtTarget(T, lo, lc) == (T.closing /\ lo) \/ (~T.closing /\ lc)

\* "Detect motor STOP (transition from running to stopped)"
DetectStop(T, dir, lo, lc) ==
  IF Recorded(T, dir)
  THEN IF T.closing /\ lo
       THEN [T EXCEPT !.lastc = T.counter, !.lastdir = 1, !.ready = TRUE,
                      !.pushes = <<>>, !.active = FALSE]
       ELSE IF ~T.closing /\ lc
       THEN [T EXCEPT !.lasto = T.counter, !.lastdir = 2, !.ready = TRUE,
                      !.pushes = <<>>, !.active = FALSE]
       ELSE [T EXCEPT !.iticks = T.counter,
                      !.idir = IF T.closing THEN 1 ELSE 2, !.iready = TRUE,
                      !.ipushes = <<>>, !.active = FALSE]
  ELSE T

\* the tick logging section for one motor, run on the direction the motor
\* control of this tick has left
TickTracking(T, dir, lo, lc) ==
  [DetectStop(CountRunTick(DetectStart(T, dir, lo, lc), dir), dir, lo, lc)
     EXCEPT !.prev = dir]

\* the tick logging of motor m after the ISR has run on input in
Tracked(m, in) ==
  TickTracking(TrackState(m), IsrResult(in).mot[m].dir, limopen[m], limclosed[m])

SetTrack(f) ==
  /\ tick_counter' = [m \in Motors |-> f[m].counter]
  /\ full_run_active' = [m \in Motors |-> f[m].active]
  /\ was_closing' = [m \in Motors |-> f[m].closing]
  /\ prev_dir' = [m \in Motors |-> f[m].prev]
  /\ last_ticks_closing' = [m \in Motors |-> f[m].lastc]
  /\ last_ticks_opening' = [m \in Motors |-> f[m].lasto]
  /\ last_direction' = [m \in Motors |-> f[m].lastdir]
  /\ data_ready' = [m \in Motors |-> f[m].ready]
  /\ interrupt_ticks' = [m \in Motors |-> f[m].iticks]
  /\ interrupt_direction' = [m \in Motors |-> f[m].idir]
  /\ interrupt_ready' = [m \in Motors |-> f[m].iready]
  /\ tick_pushes' = [m \in Motors |-> f[m].pushes]
  /\ interrupt_pushes' = [m \in Motors |-> f[m].ipushes]

\* the whole timer interrupt: motor control, then tick logging
Tick(in) ==
  \E S \in {IsrResult(in)} :
  /\ motdir' = [m \in Motors |-> S.mot[m].dir]
  /\ motspeed' = [m \in Motors |-> S.mot[m].speed]
  /\ mottimer' = [m \in Motors |-> S.mot[m].timer]
  /\ stopreason' = [m \in Motors |-> S.mot[m].reason]
  /\ AutoClosedByIP' = [m \in Motors |-> S.mot[m].auto]
  /\ runTicks' = [m \in Motors |-> S.mot[m].run]
  /\ cnt' = S.cnt
  /\ pressed_flag' = S.pressed
  /\ swstop_pressed_flag' = S.swflag
  /\ SetTrack([m \in Motors |->
                TickTracking(TrackState(m), S.mot[m].dir, limopen[m], limclosed[m])])
  /\ UNCHANGED <<sensorVars, netVars, monitorVars, counterVars, storeVars,
                 tickLoggingEnabled, webVars, wdtVars, preemptVars>>

TickStep == \E in \in TickInputs : Tick(in)

\* ------------------------------------------------------ web client opcodes

\* a motor stopped by the web interface
WebStopped(r) == [r EXCEPT !.dir = 0, !.reason = R_WEB, !.auto = FALSE]

\* opcodes 1-4: "Auto-stop if motor is running in different direction",
\* then "Execute command if limit allows"
WebAutoStop(r, d) == IF r.dir # 0 /\ r.dir # d THEN WebStopped(r) ELSE r

WebExecute(r, m, d) == IF ~LimitOf(m, d) THEN Started(r, m, d) ELSE r

WebStart(r, m, d) == WebExecute(WebAutoStop(r, d), m, d)

SetMotor(m, r) ==
  /\ motdir' = [motdir EXCEPT ![m] = r.dir]
  /\ motspeed' = [motspeed EXCEPT ![m] = r.speed]
  /\ mottimer' = [mottimer EXCEPT ![m] = r.timer]
  /\ stopreason' = [stopreason EXCEPT ![m] = r.reason]
  /\ AutoClosedByIP' = [AutoClosedByIP EXCEPT ![m] = r.auto]
  /\ runTicks' = [runTicks EXCEPT ![m] = r.run]

SetMotors(f) ==
  /\ motdir' = [m \in Motors |-> f[m].dir]
  /\ motspeed' = [m \in Motors |-> f[m].speed]
  /\ mottimer' = [m \in Motors |-> f[m].timer]
  /\ stopreason' = [m \in Motors |-> f[m].reason]
  /\ AutoClosedByIP' = [m \in Motors |-> f[m].auto]
  /\ runTicks' = [m \in Motors |-> f[m].run]

\* opcode 1: S1 OPEN, 2: S1 CLOSE, 3: S2 OPEN, 4: S2 CLOSE
WebMotorCmd(m, d) ==
  /\ SetMotor(m, WebStart(MotorRec(m), m, d))
  /\ UNCHANGED <<buttonVars, sensorVars, netVars, monitorVars, counterVars,
                 storeVars, recorderVars, webVars, wdtVars, preemptVars>>

\* opcode 5: STOP all motors
WebStopAll ==
  /\ SetMotors([m \in Motors |-> WebStopped(MotorRec(m))])
  /\ UNCHANGED <<buttonVars, sensorVars, netVars, monitorVars, counterVars,
                 storeVars, recorderVars, webVars, wdtVars, preemptVars>>

\* a reset that clears the counters in memory only
ResetCountersInMemory(ee) == ee

\* the EEPROM after "Reset persistent counters"
ResetCounters(ee) ==
  Put(Put(ee, EEPROM_ADDR_TOTAL_IP_FAILS, 0), EEPROM_ADDR_AUTO_CLOSES, 0)

\* opcode R: reset the lifetime counters
WebResetCounters ==
  /\ totalIpFailures' = 0
  /\ totalAutoCloses' = 0
  /\ eeprom' = ResetCounters(eeprom)
  /\ UNCHANGED <<motorVars, buttonVars, sensorVars, netVars, monitorVars,
                 eepromDirty, sinceSave, dayCounter, recorderVars, webVars, wdtVars, preemptVars>>

\* ---------------------------------------------------------- environment

\* a limit switch of shutter m changes its reading
LimOpenChange(m) ==
  /\ limopen' = [limopen EXCEPT ![m] = ~@]
  /\ UNCHANGED <<limclosed, motorVars, buttonVars, netVars, monitorVars, counterVars,
                 storeVars, recorderVars, webVars, wdtVars, preemptVars>>

LimClosedChange(m) ==
  /\ limclosed' = [limclosed EXCEPT ![m] = ~@]
  /\ UNCHANGED <<limopen, motorVars, buttonVars, netVars, monitorVars, counterVars,
                 storeVars, recorderVars, webVars, wdtVars, preemptVars>>

SensorChange == \E m \in Motors : LimOpenChange(m) \/ LimClosedChange(m)

\* the Ethernet cable is removed or inserted
LinkChange ==
  /\ link' = ~link
  /\ UNCHANGED <<motorVars, buttonVars, sensorVars, networkMonitoringEnabled,
                 ethernet_initialized, wasLinkDown, monitorVars, counterVars,
                 storeVars, recorderVars, webVars, wdtVars, preemptVars>>

\* millis() advances by d units
Advance(d, cap) ==
  /\ sinceAttempt' = Min(sinceAttempt + d, cap)
  /\ failElapsed' = IF firstFailSet THEN Min(failElapsed + d, maxFailTimeWindow + 1)
                                    ELSE failElapsed
  /\ sinceSave' = Min(sinceSave + d, SaveInterval + 1)
  /\ UNCHANGED <<motorVars, buttonVars, sensorVars, netVars, counterVars,
                 cableRemovalAutoCloseTriggered, connectFailCount, firstFailSet,
                 eeprom, eepromDirty, dayCounter, recorderVars, webVars, wdtVars, preemptVars>>

\* ----------------------------------------------------- Ethernet bring-up

\* setupEthernet(): ethernet_initialized afterwards; it fails without a link,
\* and with a link when no IP address comes up (ipUp false)
setupEthernet(ipUp) == link /\ ipUp

\* networkWatchdog(): the three periodic checks are due or not
networkWatchdog(cableDue, healthDue, resetDue, ipLost, ipUp) ==
  /\ IF ~networkMonitoringEnabled
       THEN IF cableDue /\ link
              THEN /\ ethernet_initialized' = setupEthernet(ipUp)
                   /\ networkMonitoringEnabled' = setupEthernet(ipUp)
              ELSE UNCHANGED <<ethernet_initialized, networkMonitoringEnabled>>
       ELSE /\ UNCHANGED networkMonitoringEnabled
            /\ IF healthDue /\ ~link
                 THEN ethernet_initialized' = FALSE
                 ELSE LET e1 == IF healthDue /\ ipLost THEN setupEthernet(ipUp)
                                                       ELSE ethernet_initialized
                      IN  ethernet_initialized' =
                            IF e1 /\ resetDue THEN setupEthernet(ipUp) ELSE e1
  /\ UNCHANGED <<motorVars, buttonVars, sensorVars, link, wasLinkDown,
                 monitorVars, counterVars, storeVars, recorderVars, webVars, wdtVars, preemptVars>>

\* ------------------------------------- IP monitoring and auto-close logic

\* what checkRemoteConnectionAndAutoClose() works on
MonitorState ==
  [mot |-> [m \in Motors |-> MotorRec(m)],
   trig |-> cableRemovalAutoCloseTriggered,
   count |-> connectFailCount, ffs |-> firstFailSet, fe |-> failElapsed,
   since |-> sinceAttempt, eth |-> ethernet_initialized, wld |-> wasLinkDown,
   ipf |-> totalIpFailures, acl |-> totalAutoCloses, st |-> StoreState]

\* "Determine if dome needs protection (any state except fully closed)"
domeIsNotFullyClosed ==
  \/ ~limopen[1] \/ ~limopen[2]
  \/ motdir[1] = CLOSE \/ motdir[2] = CLOSE

\* an auto-close that starts idle shutters only and leaves an opening one
AutoCloseNeededWhenIdle(r, m) == r.dir = 0 /\ ~limopen[m]

\* the auto-close of one shutter: "If motor already closing: no change needed"
AutoCloseNeeded(r, m) == r.dir # OPEN /\ ~limopen[m]

\* an auto-close that takes the name CLOSE at its word
AutoCloseMotorByName(r, m) ==
  IF AutoCloseNeeded(r, m)
    THEN [r EXCEPT !.dir = CLOSE, !.timer = MaxTimer(m, CLOSE), !.auto = TRUE,
                   !.reason = R_IPFAIL, !.run = 0]
    ELSE r

AutoCloseMotor(r, m) ==
  IF AutoCloseNeeded(r, m)
    THEN [r EXCEPT !.dir = OPEN, !.timer = MaxTimer(m, OPEN), !.auto = TRUE,
                   !.reason = R_IPFAIL, !.run = 0]
    ELSE r

\* totalAutoCloses++ (unsigned int)
CountAutoClose(n, action_taken) == IF action_taken THEN (n + 1) % UIntModulus ELSE n

\* "eepromDirty = true; saveCountersToEEPROM();" after totalAutoCloses++
SaveAutoClose(M, action_taken) ==
  IF action_taken
    THEN [M EXCEPT !.st = saveCountersToEEPROM([@ EXCEPT !.dirty = TRUE],
                                               M.ipf, M.acl)]
    ELSE M

\* both shutters, then the counter and its save if action_taken
AutoClose(M) ==
  LET action_taken == \E m \in Motors : AutoCloseNeeded(M.mot[m], m)
  IN  SaveAutoClose([M EXCEPT !.mot = [m \in Motors |-> AutoCloseMotor(@[m], m)],
                             !.acl = CountAutoClose(@, action_taken)],
                    action_taken)

ResetFailCounters(M) == [M EXCEPT !.count = 0, !.ffs = FALSE, !.fe = 0]

\* the cable-removal close without its once-per-removal flag test
CableRemovedUnflagged(M) == [AutoClose(M) EXCEPT !.trig = TRUE]

\* link down: "close dome immediately (only once per removal)", then return
CableRemoved(M) ==
  IF ~M.trig THEN [AutoClose(M) EXCEPT !.trig = TRUE] ELSE M

\* "Cable is back - reset the trigger flag"
CableBack(M) == [M EXCEPT !.trig = FALSE]

\* "Auto-Recovery": re-initialise Ethernet when the link is back
AutoRecovery(M, needsRecovery, ipUp) ==
  IF M.wld /\ ~needsRecovery /\ M.eth
    THEN [ResetFailCounters(M) EXCEPT !.eth = setupEthernet(ipUp), !.wld = FALSE]
    ELSE IF ~M.eth THEN [M EXCEPT !.wld = TRUE] ELSE M

\* "IP-Recovery falls noetig"
IpRecovery(M, needsRecovery, ipUp) ==
  IF needsRecovery /\ M.eth THEN [M EXCEPT !.eth = setupEthernet(ipUp)] ELSE M

\* a rescind that does not ask who owns the closing
RescindAnyClosing(r) ==
  IF r.dir = OPEN
    THEN [r EXCEPT !.dir = 0, !.reason = R_LIMIT, !.auto = FALSE]
    ELSE r

\* a successful probe stops the auto-close of a shutter
Rescind(r) ==
  IF r.auto /\ r.dir = OPEN
    THEN [r EXCEPT !.dir = 0, !.reason = R_LIMIT, !.auto = FALSE]
    ELSE r

ProbeSuccess(M) ==
  [ResetFailCounters(M) EXCEPT !.mot = [m \in Motors |-> Rescind(@[m])]]

\* the window test with >= for >
WindowExpiredAtEdge(elapsed) == elapsed >= maxFailTimeWindow

\* a failed probe: count it, and restart the window when it has expired
WindowExpired(elapsed) == elapsed > maxFailTimeWindow

\* a failed probe that starts the count afresh but keeps the old window
ProbeFailureOldWindow(M) ==
  LET elapsed == IF M.ffs THEN M.fe ELSE 0
  IN  IF WindowExpired(elapsed)
        THEN [M EXCEPT !.ffs = TRUE, !.fe = elapsed, !.count = 1,
                       !.ipf = (@ + 1) % UIntModulus, !.st.dirty = TRUE]
        ELSE [M EXCEPT !.ffs = TRUE, !.fe = elapsed, !.count = @ + 1,
                       !.ipf = (@ + 1) % UIntModulus, !.st.dirty = TRUE]

ProbeFailure(M) ==
  LET elapsed == IF M.ffs THEN M.fe ELSE 0
  IN  IF WindowExpired(elapsed)
        THEN [M EXCEPT !.ffs = TRUE, !.fe = 0, !.count = 1,
                       !.ipf = (@ + 1) % UIntModulus, !.st.dirty = TRUE]
        ELSE [M EXCEPT !.ffs = TRUE, !.fe = elapsed, !.count = @ + 1,
                       !.ipf = (@ + 1) % UIntModulus, !.st.dirty = TRUE]

\* "Check connection with longer intervals"
ProbeDue(M) == M.since >= connectCheckInterval

ConnectionCheck(M, networkProblem, connected) ==
  IF ProbeDue(M)
    THEN LET connectionOK == ~networkProblem /\ M.eth /\ connected
         IN  [(IF connectionOK THEN ProbeSuccess(M) ELSE ProbeFailure(M))
                EXCEPT !.since = 0]
    ELSE M

\* "Trigger auto-close after 5 failures within 5-minute window"
ThresholdReached(M) == M.count >= maxConnectFails /\ M.fe <= maxFailTimeWindow

\* the trigger without the reset of the counters that follows it
FailureTriggerNoReset(M) ==
  IF ThresholdReached(M) THEN AutoClose(M) ELSE M

FailureTrigger(M) ==
  IF ThresholdReached(M) THEN ResetFailCounters(AutoClose(M)) ELSE M

\* the closed-dome branch clearing the counters but not the ownership
DomeClosedResetCountersOnly(M) == [ResetFailCounters(M) EXCEPT !.since = 0]

\* "Kuppel ist geschlossen - alles zuruecksetzen"
DomeClosedReset(M) ==
  [ResetFailCounters(M) EXCEPT
     !.since = 0, !.mot = [m \in Motors |-> [@[m] EXCEPT !.auto = FALSE]]]

\* the body of checkRemoteConnectionAndAutoClose() with the link up
LinkUpPath(M, ipLost, connected, ipUp) ==
  LET networkProblem == ~M.eth \/ ipLost
      M1 == IpRecovery(AutoRecovery(CableBack(M), ipLost, ipUp), ipLost, ipUp)
  IN  FailureTrigger(ConnectionCheck(M1, networkProblem, connected))

\* a monitor that does not ask whether a cable was ever detected
MonitorResultUnasked(M, ipLost, connected, ipUp) ==
  IF ~domeIsNotFullyClosed THEN DomeClosedReset(M)
  ELSE IF ~link THEN CableRemoved(M)
  ELSE LinkUpPath(M, ipLost, connected, ipUp)

MonitorResult(M, ipLost, connected, ipUp) ==
  IF ~networkMonitoringEnabled THEN M
  ELSE IF ~domeIsNotFullyClosed THEN DomeClosedReset(M)
  ELSE IF ~link THEN CableRemoved(M)
  ELSE LinkUpPath(M, ipLost, connected, ipUp)

\* what the monitor leaves in the motor, monitor and counter variables
SetMonitor(M) ==
  /\ SetMotors(M.mot)
  /\ cableRemovalAutoCloseTriggered' = M.trig
  /\ connectFailCount' = M.count
  /\ firstFailSet' = M.ffs
  /\ failElapsed' = M.fe
  /\ sinceAttempt' = M.since
  /\ ethernet_initialized' = M.eth
  /\ wasLinkDown' = M.wld
  /\ totalIpFailures' = M.ipf
  /\ totalAutoCloses' = M.acl

checkRemoteConnectionAndAutoClose(ipLost, connected, ipUp) ==
  \E M \in {MonitorResult(MonitorState, ipLost, connected, ipUp)} :
  /\ SetMonitor(M)
  /\ SetStore(M.st)
  /\ UNCHANGED <<buttonVars, sensorVars, link, networkMonitoringEnabled,
                 recorderVars, webVars, wdtVars, preemptVars>>

\* The monitor with the counter store left out.  The store is written by the
\* monitor and read by nothing but saveCountersToEEPROM(), so the motors, the
\* failure counting and the counters behave the same with the store left as
\* it is.
MonitorControl(ipLost, connected, ipUp) ==
  \E M \in {MonitorResult(MonitorState, ipLost, connected, ipUp)} :
  /\ SetMonitor(M)
  /\ UNCHANGED <<buttonVars, sensorVars, link, networkMonitoringEnabled,
                 storeVars, recorderVars, webVars, wdtVars, preemptVars>>

MonitorStep ==
  \E ipLost, connected, ipUp \in BOOLEAN :
    MonitorControl(ipLost, connected, ipUp)

\* The main loop is not inside a handler: nothing is half written, and no
\* motor, direction or tick count is held in a local variable.
InLoop == [at |-> "loop", m |-> 0, d |-> 0, ticks |-> 0, sent |-> 0]

\* ------------------------------------------------------------ behaviour

\* The state after setup(): motors off, flags clear, every counter of the
\* monitor cleared; the sensors, the link and the EEPROM totals are whatever
\* the installation has.  c is the debounce counter: 0 after setup(), CntCap
\* once the ISR has run for a while with no button accepted.  The counters
\* in memory are the ones initializeEEPROM() left in the EEPROM; sinceSave
\* is 0 after setup() and above SaveInterval once the controller has run for
\* five minutes without a save.  The run recorder is idle and tick logging
\* is off.
Boot(c) ==
  /\ motdir = [m \in Motors |-> 0]
  /\ motspeed = [m \in Motors |-> 0]
  /\ mottimer = [m \in Motors |-> 0]
  /\ stopreason = [m \in Motors |-> 0]
  /\ AutoClosedByIP = [m \in Motors |-> FALSE]
  /\ runTicks = [m \in Motors |-> 0]
  /\ cnt = c
  /\ pressed_flag = [b \in ButtonNames |-> FALSE]
  /\ swstop_pressed_flag = FALSE
  /\ limopen \in [Motors -> BOOLEAN]
  /\ limclosed \in [Motors -> BOOLEAN]
  /\ link \in BOOLEAN
  /\ networkMonitoringEnabled = link
  /\ ethernet_initialized \in {e \in BOOLEAN : e => link}
  /\ wasLinkDown = FALSE
  /\ cableRemovalAutoCloseTriggered = FALSE
  /\ connectFailCount = 0
  /\ firstFailSet = FALSE
  /\ failElapsed = 0
  /\ sinceAttempt = 0
  /\ totalIpFailures \in 0..(UIntModulus - 1)
  /\ totalAutoCloses \in 0..(UIntModulus - 1)
  /\ dayCounter \in 0..DayWrap
  /\ eeprom = Image(totalIpFailures, totalAutoCloses, dayCounter)
  /\ eepromDirty = FALSE
  /\ sinceSave \in {0, SaveInterval + 1}
  /\ tickLoggingEnabled = FALSE
  /\ tick_counter = [m \in Motors |-> 0]
  /\ full_run_active = [m \in Motors |-> FALSE]
  /\ was_closing = [m \in Motors |-> FALSE]
  /\ prev_dir = [m \in Motors |-> 0]
  /\ last_ticks_closing = [m \in Motors |-> 0]
  /\ last_ticks_opening = [m \in Motors |-> 0]
  /\ last_direction = [m \in Motors |-> 0]
  /\ data_ready = [m \in Motors |-> FALSE]
  /\ interrupt_ticks = [m \in Motors |-> 0]
  /\ interrupt_direction = [m \in Motors |-> 0]
  /\ interrupt_ready = [m \in Motors |-> FALSE]
  /\ tick_pushes = [m \in Motors |-> <<>>]
  /\ interrupt_pushes = [m \in Motors |-> <<>>]
  /\ statusReply = "NONE"
  /\ loopAt = "wdt_reset"
  /\ wdtElapsed = 0
  /\ mainAt = InLoop

Init == Boot(0) /\ sinceSave = 0

\* A restart (power cycle or watchdog reset) followed by setup() with the
\* EEPROM holding ee: memory is cleared, initializeEEPROM() loads the
\* counters; the sensors and the cable are where they were.
RestartFrom(ee) ==
  \E L \in {initializeEEPROM(ee)} :
  /\ SetMotors([m \in Motors |->
                 [dir |-> 0, speed |-> 0, timer |-> 0, reason |-> R_LIMIT,
                  auto |-> FALSE, run |-> 0]])
  /\ cnt' = 0
  /\ pressed_flag' = [b \in ButtonNames |-> FALSE]
  /\ swstop_pressed_flag' = FALSE
  /\ networkMonitoringEnabled' = link
  /\ ethernet_initialized' \in {e \in BOOLEAN : e => link}
  /\ wasLinkDown' = FALSE
  /\ cableRemovalAutoCloseTriggered' = FALSE
  /\ connectFailCount' = 0
  /\ firstFailSet' = FALSE
  /\ failElapsed' = 0
  /\ sinceAttempt' = 0
  /\ totalIpFailures' = L.ipf
  /\ totalAutoCloses' = L.acl
  /\ SetStore([ee |-> L.ee, dirty |-> FALSE, since |-> 0, day |-> L.day])
  /\ tickLoggingEnabled' = FALSE
  /\ tick_counter' = [m \in Motors |-> 0]
  /\ full_run_active' = [m \in Motors |-> FALSE]
  /\ was_closing' = [m \in Motors |-> FALSE]
  /\ prev_dir' = [m \in Motors |-> 0]
  /\ last_ticks_closing' = [m \in Motors |-> 0]
  /\ last_ticks_opening' = [m \in Motors |-> 0]
  /\ last_direction' = [m \in Motors |-> 0]
  /\ data_ready' = [m \in Motors |-> FALSE]
  /\ interrupt_ticks' = [m \in Motors |-> 0]
  /\ interrupt_direction' = [m \in Motors |-> 0]
  /\ interrupt_ready' = [m \in Motors |-> FALSE]
  /\ tick_pushes' = [m \in Motors |-> <<>>]
  /\ interrupt_pushes' = [m \in Motors |-> <<>>]
  /\ statusReply' = "NONE"
  /\ loopAt' = "wdt_reset"
  /\ wdtElapsed' = 0
  /\ mainAt' = InLoop
  /\ UNCHANGED <<sensorVars, link>>

Restart == RestartFrom(eeprom)

\* the first boot of a controller whose EEPROM was never written
FirstBoot == RestartFrom(Erased)

\* ------------------------------------------------ pushing the tick records

\* a push guard that does not ask whether logging is enabled
PushReadyUnasked == ethernet_initialized /\ networkMonitoringEnabled

\* "Skip if logging disabled or network not ready"
PushReady == tickLoggingEnabled /\ ethernet_initialized /\ networkMonitoringEnabled

\* the history of a record after one more logClient.connect()
Connected(h, ok) == IF Len(h) < PushCap THEN Append(h, ok) ELSE h

\* a push that keeps the record queued until a connection succeeds
PushTickDataRetrying(T, ok) ==
  IF T.ready
  THEN [T EXCEPT !.pushes = Connected(@, ok), !.ready = ~ok]
  ELSE T

\* one motor's full-run record: logClient.connect() gives ok, the GET is sent
\* if it succeeds, then "Clear flag regardless of success"
PushTickData(T, ok) ==
  IF T.ready
  THEN [T EXCEPT !.pushes = Connected(@, ok), !.ready = FALSE]
  ELSE T

\* one motor's interrupt record
PushInterruptData(T, ok) ==
  IF T.iready
  THEN [T EXCEPT !.ipushes = Connected(@, ok), !.iready = FALSE]
  ELSE T

pushTickDataIfReady(ok) ==
  /\ IF PushReady
     THEN SetTrack([m \in Motors |-> PushTickData(TrackState(m), ok[m])])
     ELSE UNCHANGED <<trackVars, recordVars, pushVars>>
  /\ UNCHANGED <<motorVars, buttonVars, sensorVars, netVars, monitorVars,
                 counterVars, storeVars, tickLoggingEnabled, webVars, wdtVars, preemptVars>>

\* without logging or network: "Still clear flags to prevent buildup"
pushInterruptDataIfReady(ok) ==
  /\ IF PushReady
     THEN SetTrack([m \in Motors |-> PushInterruptData(TrackState(m), ok[m])])
     ELSE SetTrack([m \in Motors |-> [TrackState(m) EXCEPT !.iready = FALSE]])
  /\ UNCHANGED <<motorVars, buttonVars, sensorVars, netVars, monitorVars,
                 counterVars, storeVars, tickLoggingEnabled, webVars, wdtVars, preemptVars>>

\* letter S: the plain text status read from the pins lim1closed, lim2closed
StatusTextByName == IF limclosed[1] /\ limclosed[2] THEN "CLOSED" ELSE "OPEN"

\* letter S: "if (digitalRead(lim1open) && digitalRead(lim2open))"
StatusText == IF limopen[1] /\ limopen[2] THEN "CLOSED" ELSE "OPEN"

\* letter S: plain text status request
WebStatus ==
  /\ statusReply' = StatusText
  /\ UNCHANGED <<motorVars, buttonVars, sensorVars, netVars, monitorVars,
                 counterVars, storeVars, recorderVars, wdtVars, preemptVars>>

\* web client letter L: "Toggle on/off"
WebToggleLogging ==
  /\ tickLoggingEnabled' = ~tickLoggingEnabled
  /\ UNCHANGED <<motorVars, buttonVars, sensorVars, netVars, monitorVars,
                 counterVars, storeVars, trackVars, recordVars, pushVars,
                 webVars, wdtVars, preemptVars>>

\* the whole program
Next ==
  \/ TickStep
  \/ \E m \in Motors, d \in {OPEN, CLOSE} : WebMotorCmd(m, d)
  \/ WebStopAll
  \/ WebResetCounters
  \/ SensorChange
  \/ LinkChange
  \/ \E d \in 1..2 : Advance(d, SinceCap)
  \/ \E cableDue, healthDue, resetDue, ipLost, ipUp \in BOOLEAN :
       networkWatchdog(cableDue, healthDue, resetDue, ipLost, ipUp)
  \/ \E ipLost, connected, ipUp \in BOOLEAN :
       checkRemoteConnectionAndAutoClose(ipLost, connected, ipUp)
  \/ LoopSave
  \/ LoopDay
  \/ \E ok \in [Motors -> BOOLEAN] : pushTickDataIfReady(ok)
  \/ \E ok \in [Motors -> BOOLEAN] : pushInterruptDataIfReady(ok)
  \/ WebToggleLogging
  \/ WebStatus
  \/ Restart
  \/ FirstBoot

Spec == Init /\ [][Next]_vars

\* ------------------------------------------- the ISR and its requesters
\* Shutter 1 is worked from its two buttons, SWSTOP and the web client while
\* its limit switches come and go; shutter 2 stands open and is moved by the
\* auto-close only.  The cable is pulled once and stays out; the Ethernet chip
\* keeps its address.

Shutter1Inputs == {in \in TickInputs : in.down \subseteq {"SW1up", "SW1down"}}

CableMonitor == \E connected \in BOOLEAN :
                  MonitorControl(FALSE, connected, TRUE)

CablePulled == link /\ LinkChange

InitIsr ==
  /\ Boot(0)
  /\ link /\ ethernet_initialized
  /\ ~limopen[2] /\ limclosed[2]
  /\ totalIpFailures = 0 /\ totalAutoCloses = 0
  /\ dayCounter = 0 /\ sinceSave = 0

NextIsr ==
  \/ \E in \in Shutter1Inputs : TickControl(in)
  \/ \E d \in {OPEN, CLOSE} : WebMotorCmd(1, d)
  \/ WebStopAll
  \/ LimOpenChange(1)
  \/ LimClosedChange(1)
  \/ CablePulled
  \/ CableMonitor

SpecIsr == InitIsr /\ [][NextIsr]_vars

\* ---------------------------------------------- properties of the ISR

\* motor record r of shutter m actuates toward a boundary that reads asserted
TowardAsserted(r, m) == r.dir # 0 /\ LimitOf(m, r.dir)

\* a start request of the main loop: web opcode 1-4, or an auto-close that
\* started a motor
StartRequested ==
  \/ \E m \in Motors, d \in {OPEN, CLOSE} : WebMotorCmd(m, d)
  \/ MonitorStep /\ totalAutoCloses' # totalAutoCloses

\* what every tick leaves behind, whatever the buttons read
TickEndsClear ==
  \A in \in TickInputs, m \in Motors : ~TowardAsserted(IsrResult(in).mot[m], m)

\* C1 (as amended): at the end of every tick no motor actuates toward a
\* boundary whose sensor reads asserted, and no step of the program (button,
\* web opcode, auto-close) gives a motor a direction toward an asserted
\* boundary; a motor found running toward an asserted boundary after a start
\* request was running that way before the request.
C1_BoundarySafety ==
  /\ []TickEndsClear
  /\ [][\A m \in Motors :
          TowardAsserted(MotorRec(m), m)' => motdir'[m] = motdir[m]]_vars

\* C1 witness: shutter 1 runs toward its closed end, whose switch has asserted
\* since the last tick, and the auto-close has just started shutter 2.
C1_Witness ==
  /\ motdir[1] = OPEN /\ limopen[1]
  /\ motdir[2] = OPEN /\ AutoClosedByIP[2] /\ runTicks[2] = 0
  /\ cableRemovalAutoCloseTriggered

\* C1 as stated: also after every start request no motor actuates toward an
\* asserted boundary.
C1_Original ==
  /\ []TickEndsClear
  /\ [][StartRequested =>
          \A m \in Motors : ~TowardAsserted(MotorRec(m), m)']_vars

\* C2 as stated: a tick that reads SWSTOP asserted leaves both motors idle,
\* whether SWSTOP is newly asserted or held, and whatever buttons it accepts.
C2_EmergencyStopWins ==
  \A in \in TickInputs :
    in.stop => \A m \in Motors : IsrResult(in).mot[m].dir = 0

\* C3 (as amended): a started motor actuates for TimeoutTicks ticks and the
\* timeout idles it on tick TimeoutTicks + 1, for a start by a button, a web
\* opcode or an auto-close; the stop reason becomes Timeout unless the motor
\* is failsafe-owned, which keeps NetworkFailsafe.
C3_Timeout ==
  \A m \in Motors :
    /\ motdir[m] # 0 => runTicks[m] + mottimer[m] = MaxTimer(m, motdir[m])
    /\ motdir[m] = 0 /\ stopreason[m] = R_TIMEOUT => runTicks[m] = TimeoutTicks + 1
    /\ motdir[m] = 0 /\ AutoClosedByIP[m] =>
         runTicks[m] = TimeoutTicks + 1 /\ stopreason[m] = R_IPFAIL

\* C3 witness: a motor the timeout has stopped.
C3_Witness ==
  \E m \in Motors :
    motdir[m] = 0 /\ stopreason[m] = R_TIMEOUT /\ runTicks[m] = TimeoutTicks + 1

\* C3 as stated: actuating for the first TimeoutTicks - 1 ticks only, idle
\* with Timeout on tick TimeoutTicks.
C3_Original ==
  \A m \in Motors :
    /\ motdir[m] # 0 => runTicks[m] <= TimeoutTicks - 1
    /\ motdir[m] = 0 /\ stopreason[m] = R_TIMEOUT => runTicks[m] = TimeoutTicks

\* C10 (as amended): motspeed never exceeds 255; a tick that finds a motor
\* idle leaves motspeed 0; a tick that finds it running and leaves it in the
\* same run raises motspeed by SMOOTH, or to 255 once less than SMOOTH is
\* left, and never lowers it.
C10_Ramp ==
  \A m \in Motors :
    /\ motspeed[m] \in 0..PWM_MAX
    /\ \A in \in TickInputs :
         LET post == IsrResult(in).mot[m] IN
         /\ motdir[m] = 0 => post.speed = 0
         /\ post.dir # 0 /\ post.run > 0 =>
              /\ post.speed >= motspeed[m]
              /\ post.speed <= PWM_MAX
              /\ post.speed = motspeed[m] + SMOOTH \/ post.speed = PWM_MAX

\* C10 witness: a run that has ramped up to the ceiling.
C10_Witness ==
  \E m \in Motors : motdir[m] # 0 /\ runTicks[m] >= 2 /\ motspeed[m] = PWM_MAX

\* C10 as stated: motspeed is 0 in every state in which the motor is idle.
C10_Original ==
  \A m \in Motors : motdir[m] = 0 => motspeed[m] = 0

\* C11 (as claimed): a stop issued to a motor that is already off changes
\* nothing of that motor: neither web opcode 5 nor an emergency stop that
\* fires because the other motor runs touches its stop reason, its
\* AutoClosedByIP flag or any other of its variables.
C11_StopIdleNoOp ==
  \A m \in Motors :
    motdir[m] = 0 =>
      /\ WebStopped(MotorRec(m)) = MotorRec(m)
      /\ (~swstop_pressed_flag /\ \E k \in Motors : motdir[k] # 0)
            => EmergencyStop(IsrState, TRUE).mot[m] = MotorRec(m)

\* the tick with input in, and the same tick with button b not held
WithoutButton(in, b) == [in EXCEPT !.down = @ \ {b}]

\* button b produces a press action in the tick with input in: but for b's
\* own pressed flag the tick ends differently than it would without b held
Acted(b, in) ==
  /\ b \in in.down
  /\ [IsrResult(in) EXCEPT !.pressed[b] = FALSE]
       # [IsrResult(WithoutButton(in, b)) EXCEPT !.pressed[b] = FALSE]

\* C12: a direction button acts only in a tick that reads it asserted with
\* its pressed flag clear and the shared debounce counter, counted up in that
\* tick, above DebounceTicks; held alone in such a tick it acts at once.  An
\* action sets the pressed flag and clears the counter; a flagged button that
\* is still held keeps its flag and does not act again; the flag is clear
\* after every tick that reads the button de-asserted.
C12_Debounce ==
  \A in \in TickInputs : \E R \in {IsrResult(in)} : \A b \in ButtonNames :
    /\ Acted(b, in) => /\ ~pressed_flag[b]
                       /\ DebounceCount(cnt) > DebounceTicks
                       /\ R.pressed[b] /\ R.cnt = 0
    /\ (in.down = {b} /\ ~pressed_flag[b] /\ DebounceCount(cnt) > DebounceTicks)
          => Acted(b, in)
    /\ (b \in in.down /\ pressed_flag[b]) => R.pressed[b]
    /\ b \notin in.down => ~R.pressed[b]

\* C12 witness: SW1up has just acted and started motor 1; it is still flagged.
C12_Witness ==
  /\ pressed_flag["SW1up"] /\ cnt = 0
  /\ motdir[1] = OPEN /\ mottimer[1] = MAX_MOT1_OPEN /\ runTicks[1] = 0

\* k more ticks with button b held alone, run on state S
RECURSIVE Hold(_, _, _)
Hold(S, b, k) ==
  IF k = 0 THEN S
  ELSE Hold(IsrFrom(S, [stop |-> FALSE, down |-> {b}]), b, k - 1)

\* one tick that reads nothing asserted, then k ticks with b held alone
HeldTicks(b, k) == Hold(IsrFrom(IsrState, [stop |-> FALSE, down |-> {}]), b, k)

\* C12 (as claimed): a button acts only once it has read asserted for
\* DebounceTicks + 1 consecutive ticks, so a button released in one tick and
\* held for the next k <= DebounceTicks ticks has not acted.
C12_Original ==
  \A b \in ButtonNames, k \in 1..DebounceTicks : ~HeldTicks(b, k).pressed[b]

\* C13: an accepted press toggles its motor.  A motor running in either
\* direction when the button section is reached is switched off with stop
\* reason 1 and AutoClosedByIP cleared; a motor that is off and not at the
\* button's limit switch is started in the button's direction with the
\* calibrated timeout, stop reason 0 and AutoClosedByIP cleared; a motor that
\* is off at that limit switch is left as it is.  The other motor is not
\* touched.
C13_Toggle ==
  \A in \in TickInputs :
    \E S \in {BeforeButtons(IsrState, in)} : \E R \in {IsrResult(in)} :
      \A b \in ButtonNames :
        Acted(b, in) =>
          LET m == ButtonMotor(b)
              d == ButtonDir(b)
              r == S.mot[m]
          IN  /\ r.dir # 0 =>
                   R.mot[m] = [r EXCEPT !.dir = 0, !.reason = R_BUTTON,
                                        !.auto = FALSE]
              /\ (r.dir = 0 /\ ~LimitOf(m, d)) =>
                   /\ R.mot[m].dir = d
                   /\ R.mot[m].timer = MaxTimer(m, d)
                   /\ R.mot[m].reason = R_LIMIT
                   /\ ~R.mot[m].auto
                   /\ R.mot[m].speed = r.speed
              /\ (r.dir = 0 /\ LimitOf(m, d)) => R.mot[m] = r
              /\ \A o \in Motors \ {m} : R.mot[o] = S.mot[o]

\* C13 witness: SW1down has just been accepted on a running motor 1, which is
\* now off with stop reason 1 before its timeout ran out.
C13_Witness ==
  /\ pressed_flag["SW1down"] /\ cnt = 0
  /\ motdir[1] = 0 /\ stopreason[1] = R_BUTTON /\ mottimer[1] > 0

\* ------------------------------------------------- the monitor at work
\* Both shutters are worked from the web client between two ticks of the
\* ISR, their closed-end switches come and go, the cable comes and goes, the
\* clock advances one probe interval at a time, and the watchdog's health
\* check loses and recovers the Ethernet stack.

HealthCheck == \E ipLost, ipUp \in BOOLEAN :
                 networkWatchdog(FALSE, TRUE, FALSE, ipLost, ipUp)

InitMonitor ==
  /\ Boot(0)
  /\ link /\ ethernet_initialized
  /\ limclosed = [m \in Motors |-> FALSE]
  /\ totalIpFailures = 0 /\ totalAutoCloses = 0
  /\ dayCounter = 0 /\ sinceSave = SaveInterval + 1

NextMonitor ==
  \/ \E m \in Motors, d \in {OPEN, CLOSE} : WebMotorCmd(m, d)
  \/ WebStopAll
  \/ \E m \in Motors : LimOpenChange(m)
  \/ LinkChange
  \/ Advance(connectCheckInterval, connectCheckInterval)
  \/ HealthCheck
  \/ MonitorStep

SpecMonitor == InitMonitor /\ [][NextMonitor]_vars

\* ------------------------------------------- the station out of reach
\* The link is up, the dome is not fully closed, nobody operates it and every
\* probe fails.  The clock advances 15 s at a time; the main loop reaches the
\* monitor sooner or later, so a due probe is made 60 s, 75 s or longer after
\* the previous one.  The ISR has been ticking for a while with no button held.

QuietInputs == {in \in TickInputs : in.down = {} /\ ~in.stop}

FailedProbe == MonitorControl(FALSE, FALSE, TRUE)

ClockTick == Advance(1, SinceCap)

InitLive ==
  /\ Boot(CntCap)
  /\ link /\ ethernet_initialized
  /\ \E m \in Motors : ~limopen[m]
  /\ totalIpFailures = 0 /\ totalAutoCloses = 0
  /\ dayCounter = 0 /\ sinceSave = SaveInterval + 1

NextLive ==
  \/ \E in \in QuietInputs : TickControl(in)
  \/ ClockTick
  \/ FailedProbe

\* loop() calls the monitor on every pass and the clock does not stop
SpecLive ==
  InitLive /\ [][NextLive]_vars /\ WF_vars(ClockTick) /\ WF_vars(FailedProbe)

\* ------------------------------------------ properties of the monitor

\* the step is an auto-close action: the cable-removal trigger sets its flag,
\* or a counted failure clears the failure count (an expired window restarts
\* the count at 1, a successful probe counts no failure)
CableTriggerFired == ~cableRemovalAutoCloseTriggered /\ cableRemovalAutoCloseTriggered'

FailureCounted == totalIpFailures' # totalIpFailures

ThresholdTriggerFired == FailureCounted /\ connectFailCount' = 0

AutoCloseFired == CableTriggerFired \/ ThresholdTriggerFired

\* motor m is left exactly as it was
MotorUntouched(m) == MotorRec(m)' = MotorRec(m)

\* the step starts motor m toward closed as a failsafe
FailsafeStarted(m) ==
  /\ motdir'[m] = OPEN /\ mottimer'[m] = MaxTimer(m, OPEN)
  /\ AutoClosedByIP'[m] /\ stopreason'[m] = R_IPFAIL

\* C4 (as amended): immediately after an auto-close action every motor whose
\* closed-end switch is not asserted actuates toward closed; a motor that was
\* idle or opening is started failsafe-owned with stop reason NetworkFailsafe,
\* a motor that was already closing is left as it was (ownership and stop
\* reason included), and totalAutoCloses is incremented once if some motor
\* was started and not at all otherwise.
C4_AutoClosePost ==
  [][AutoCloseFired =>
       /\ \A m \in Motors :
            /\ ~limopen[m] => motdir'[m] = OPEN
            /\ IF motdir[m] # OPEN /\ ~limopen[m]
                 THEN FailsafeStarted(m)
                 ELSE MotorUntouched(m)
       /\ totalAutoCloses' =
            IF \E m \in Motors : motdir[m] # OPEN /\ ~limopen[m]
              THEN (totalAutoCloses + 1) % UIntModulus
              ELSE totalAutoCloses]_vars

\* C4 witness: after the cable-removal trigger shutter 1 closes failsafe-owned
\* while shutter 2 goes on closing under the operator's web command.
C4_Witness ==
  /\ ~link /\ cableRemovalAutoCloseTriggered
  /\ \A m \in Motors : ~limopen[m] /\ motdir[m] = OPEN
  /\ AutoClosedByIP[1] /\ stopreason[1] = R_IPFAIL
  /\ ~AutoClosedByIP[2] /\ stopreason[2] = R_LIMIT

\* C4 as stated: every motor not at its closed end is then closing,
\* failsafe-owned with stop reason NetworkFailsafe, and totalAutoCloses has
\* been incremented.
C4_Original ==
  [][AutoCloseFired =>
       /\ \A m \in Motors :
            ~limopen[m] => motdir'[m] = OPEN /\ AutoClosedByIP'[m]
                           /\ stopreason'[m] = R_IPFAIL
       /\ totalAutoCloses' = (totalAutoCloses + 1) % UIntModulus]_vars

\* C5: once the cable-removal close has fired and while the link stays absent,
\* the flag stays set, totalAutoCloses does not change and no step makes a
\* motor failsafe-owned, i.e. the monitor starts no motor again, whatever the
\* operator stops or starts in the meantime.
C5_OncePerRemoval ==
  [][cableRemovalAutoCloseTriggered /\ ~link =>
       /\ cableRemovalAutoCloseTriggered'
       /\ totalAutoCloses' = totalAutoCloses
       /\ \A m \in Motors : AutoClosedByIP'[m] => AutoClosedByIP[m]]_vars

\* C5 witness: the cable is out, the close has fired, and the operator has
\* stopped a shutter short of its closed end.
C5_Witness ==
  /\ ~link /\ cableRemovalAutoCloseTriggered
  /\ \E m \in Motors : ~limopen[m] /\ motdir[m] = 0 /\ stopreason[m] = R_WEB

\* C6: connectFailCount never rests at the threshold.  A failed probe fires
\* the auto-close only as the fifth failure within the window, in the monitor
\* step that counts it: every shutter not closed then closes, totalAutoCloses
\* grows by at most one, the count is 0 and the window unset.  The fifth
\* failure within the window always fires it, unless that step first
\* re-initialises Ethernet after a link loss, which clears the count before
\* the failure is counted.  Any other failed probe, the first after a trigger
\* included, counts on (or restarts at 1) and touches neither a motor nor
\* totalAutoCloses.
C6_OnePerThreshold ==
  /\ [](connectFailCount < maxConnectFails)
  /\ [][FailureCounted =>
          /\ connectFailCount = maxConnectFails - 1 /\ ~wasLinkDown
               /\ failElapsed <= maxFailTimeWindow => connectFailCount' = 0
          /\ connectFailCount = 0 => connectFailCount' = 1
          /\ IF connectFailCount' = 0
               THEN /\ connectFailCount = maxConnectFails - 1
                    /\ failElapsed <= maxFailTimeWindow
                    /\ ~firstFailSet'
                    /\ \A m \in Motors : ~limopen[m] => motdir'[m] = OPEN
                    /\ totalAutoCloses' \in
                         {totalAutoCloses, (totalAutoCloses + 1) % UIntModulus}
               ELSE /\ connectFailCount' \in {connectFailCount + 1, 1}
                    /\ firstFailSet'
                    /\ \A m \in Motors : MotorUntouched(m)
                    /\ totalAutoCloses' = totalAutoCloses]_vars

\* C6 witness: the link is up, the fifth failure has just been counted, the
\* counters are cleared and a shutter closes failsafe-owned.
C6_Witness ==
  /\ link /\ ~cableRemovalAutoCloseTriggered /\ sinceAttempt = 0
  /\ connectFailCount = 0 /\ ~firstFailSet
  /\ totalIpFailures = maxConnectFails % UIntModulus
  /\ \E m \in Motors : motdir[m] = OPEN /\ AutoClosedByIP[m]

\* the step is a probe that succeeded: one was due, the time of the last
\* attempt is renewed and no failure is counted
ProbeSucceeded ==
  /\ networkMonitoringEnabled /\ link /\ domeIsNotFullyClosed
  /\ sinceAttempt >= connectCheckInterval /\ sinceAttempt' = 0
  /\ ~FailureCounted

\* C8: after a successful probe connectFailCount is 0 and the window is unset,
\* every motor that was failsafe-owned and closing is idle with the ownership
\* cleared, and every other motor, one closing under a web or button command
\* included, is exactly as it was.
C8_ProbeSuccess ==
  [][ProbeSucceeded =>
       /\ connectFailCount' = 0 /\ ~firstFailSet'
       /\ \A m \in Motors :
            IF AutoClosedByIP[m] /\ motdir[m] = OPEN
              THEN motdir'[m] = 0 /\ ~AutoClosedByIP'[m]
              ELSE MotorUntouched(m)]_vars

\* C8 witness: after failures and an auto-close the probe has succeeded;
\* shutter 1 was rescinded short of its closed end, shutter 2 closes on under
\* the operator's command.
C8_Witness ==
  /\ link /\ sinceAttempt = 0 /\ connectFailCount = 0 /\ ~firstFailSet
  /\ totalAutoCloses = 1
  /\ ~limopen[1] /\ motdir[1] = 0 /\ ~AutoClosedByIP[1] /\ stopreason[1] = R_LIMIT
  /\ ~limopen[2] /\ motdir[2] = OPEN /\ ~AutoClosedByIP[2]

\* C9: when the monitor runs with monitoring enabled, both closed-end switches
\* asserted and no motor opening, then whatever the link and the probe answer
\* it leaves connectFailCount 0, the window unset and no motor failsafe-owned,
\* counts no probe and changes no motor's direction or timer.
C9_ClosedReset ==
  networkMonitoringEnabled /\ ~domeIsNotFullyClosed =>
    \A ipLost, connected, ipUp \in BOOLEAN :
      LET M == MonitorResult(MonitorState, ipLost, connected, ipUp) IN
      /\ M.count = 0 /\ ~M.ffs
      /\ M.ipf = totalIpFailures /\ M.acl = totalAutoCloses
      /\ \A m \in Motors :
           /\ ~M.mot[m].auto
           /\ M.mot[m].dir = motdir[m] /\ M.mot[m].timer = mottimer[m]

\* C9 witness: the dome has come to fully closed with failures counted and a
\* shutter still failsafe-owned; the monitor is about to clear them.
C9_Witness ==
  /\ networkMonitoringEnabled /\ ~domeIsNotFullyClosed
  /\ connectFailCount > 0 /\ firstFailSet
  /\ \E m \in Motors : AutoClosedByIP[m]

\* the longest spacing of the probes that fits maxConnectFails failures into
\* one window: 75 s
MaxSpacing == maxFailTimeWindow \div (maxConnectFails - 1)

SomeMotorFailsafeOwned == \E m \in Motors : AutoClosedByIP[m]

StoreMonitor == \E connected \in BOOLEAN :
                  checkRemoteConnectionAndAutoClose(FALSE, connected, TRUE)

ProbeInterval == Advance(connectCheckInterval, connectCheckInterval)

InitStore ==
  /\ Boot(CntCap)
  /\ link /\ ethernet_initialized
  /\ ~limopen[1] /\ limopen[2]
  /\ limclosed = [m \in Motors |-> FALSE]
  /\ totalIpFailures = 0 /\ totalAutoCloses = 0
  /\ dayCounter = 0 /\ sinceSave = 0

NextStore ==
  \/ StoreMonitor
  \/ LoopSave
  \/ LoopDay
  \/ WebResetCounters
  \/ LinkChange
  \/ ProbeInterval
  \/ Restart
  \/ FirstBoot

SpecStore == InitStore /\ [][NextStore]_vars

\* the counters as the EEPROM holds them
StoredIpFailures == Get(eeprom, EEPROM_ADDR_TOTAL_IP_FAILS)
StoredAutoCloses == Get(eeprom, EEPROM_ADDR_AUTO_CLOSES)

\* C14 (as claimed): when a monitor step that counted an auto-close returns,
\* the EEPROM holds the totalAutoCloses that is in memory, however recently
\* the counters were saved; and a save by the loop writes only if more than
\* SaveInterval has passed since the last save.
C14_ForcedSave ==
  /\ [](\A connected \in BOOLEAN :
          \E M \in {MonitorResult(MonitorState, FALSE, connected, TRUE)} :
            M.acl # totalAutoCloses =>
              Get(M.st.ee, EEPROM_ADDR_AUTO_CLOSES) = M.acl)
  /\ [][(LoopSave /\ eeprom' # eeprom) => sinceSave > SaveInterval]_vars

\* C15: a save that writes leaves in the EEPROM the two counters that are in
\* memory, and initializeEEPROM() run on that EEPROM loads them; a restart
\* loads the counters the EEPROM holds and leaves the EEPROM as it is; the
\* first boot on an unwritten EEPROM gives zero counters and writes the magic
\* byte, so that initializeEEPROM() run again loads what is stored.
C15_RoundTrip ==
  /\ [](LET T == saveCountersToEEPROM([StoreState EXCEPT !.dirty = TRUE,
                                                         !.since = SaveInterval + 1],
                                      totalIpFailures, totalAutoCloses)
            L == initializeEEPROM(T.ee)
        IN  /\ L.ipf = totalIpFailures /\ L.acl = totalAutoCloses
            /\ L.ee = T.ee)
  /\ [][(LoopSave /\ SaveDue(StoreState)) =>
          /\ StoredIpFailures' = totalIpFailures
          /\ StoredAutoCloses' = totalAutoCloses]_vars
  /\ [][Restart => /\ totalIpFailures' = StoredIpFailures
                   /\ totalAutoCloses' = StoredAutoCloses
                   /\ eeprom' = eeprom]_vars
  /\ [][FirstBoot =>
          /\ totalIpFailures' = 0 /\ totalAutoCloses' = 0
          /\ eeprom'[EEPROM_ADDR_MAGIC] = EEPROM_MAGIC_BYTE
          /\ initializeEEPROM(eeprom') =
               [ee |-> eeprom', ipf |-> 0, acl |-> 0, day |-> 0]]_vars

\* C15 witness: the controller has restarted (the debounce counter is 0) and
\* has loaded counters that were counted and saved before the restart.
C15_Witness ==
  /\ cnt = 0 /\ connectFailCount = 0 /\ ~eepromDirty
  /\ totalIpFailures = 1 /\ totalAutoCloses = 1
  /\ StoredIpFailures = 1 /\ StoredAutoCloses = 1

\* C16: the reset of the counters leaves both counters 0 in memory and in
\* the EEPROM and changes neither the day counter (in memory or stored), nor
\* a motor, nor the monitor's failure count and window.
C16_Reset ==
  [][WebResetCounters =>
       /\ totalIpFailures' = 0 /\ totalAutoCloses' = 0
       /\ StoredIpFailures' = 0 /\ StoredAutoCloses' = 0
       /\ dayCounter' = dayCounter
       /\ eeprom'[EEPROM_ADDR_LAST_FAIL_DAY] = eeprom[EEPROM_ADDR_LAST_FAIL_DAY]
       /\ eeprom'[EEPROM_ADDR_MAGIC] = eeprom[EEPROM_ADDR_MAGIC]
       /\ UNCHANGED <<motorVars, connectFailCount, firstFailSet, failElapsed>>]_vars

\* C16 witness: one probe interval after start-up the one failed probe is
\* still counted by the monitor and not yet saved, while the lifetime
\* counter is back to 0 in memory and in the EEPROM.
C16_Witness ==
  /\ cnt = CntCap /\ sinceSave = connectCheckInterval /\ eepromDirty
  /\ connectFailCount = 1 /\ firstFailSet
  /\ totalIpFailures = 0 /\ StoredIpFailures = 0

\* C17 (as claimed): but for the reset of the counters, no step makes
\* totalIpFailures or totalAutoCloses smaller, an increment of a counter
\* that holds its largest value included.
C17_NeverDecrease ==
  [][WebResetCounters \/ (/\ totalIpFailures' >= totalIpFailures
                          /\ totalAutoCloses' >= totalAutoCloses)]_vars

\* ------------------------------------------------ the tick records of shutter 1
\* Shutter 1 is driven from the web client and SWSTOP, and travels between its
\* limit switches: a switch changes only once the motor has been running for a
\* tick, the one ahead closing or the one behind opening.  Logging is switched
\* from the web client; the network is up.

\* the limit switch a motor running in direction d has left behind
BehindOf(m, d) == IF d = OPEN THEN limclosed[m] ELSE limopen[m]

Arrive(m) ==
  /\ motdir[m] # 0 /\ runTicks[m] >= 1
  /\ ~LimitOf(m, motdir[m]) /\ ~BehindOf(m, motdir[m])
  /\ IF motdir[m] = OPEN THEN LimOpenChange(m) ELSE LimClosedChange(m)

Leave(m) ==
  /\ motdir[m] # 0 /\ runTicks[m] >= 1
  /\ BehindOf(m, motdir[m])
  /\ IF motdir[m] = OPEN THEN LimClosedChange(m) ELSE LimOpenChange(m)

RecorderInputs == QuietInputs

InitRecorder ==
  /\ Boot(CntCap)
  /\ link /\ ethernet_initialized
  /\ ~(limopen[1] /\ limclosed[1])
  /\ limopen[2] /\ ~limclosed[2]
  /\ totalIpFailures = 0 /\ totalAutoCloses = 0
  /\ dayCounter = 0 /\ sinceSave = SaveInterval + 1

NextRecorder ==
  \/ \E in \in RecorderInputs : Tick(in)
  \/ \E d \in {OPEN, CLOSE} : WebMotorCmd(1, d)
  \/ WebStopAll
  \/ Arrive(1)
  \/ Leave(1)

SpecRecorder == InitRecorder /\ [][NextRecorder]_vars

\* The same shutter with logging switched on: the records are pushed.
\* the logging server answers or not when shutter 1 has a record
Shutter1Connects == {ok \in [Motors -> BOOLEAN] : ok[2]}

InitPush == InitRecorder /\ limopen[1]

NextPush ==
  \/ \E in \in RecorderInputs : Tick(in)
  \/ WebMotorCmd(1, CLOSE)
  \/ WebStopAll
  \/ Arrive(1)
  \/ Leave(1)
  \/ WebToggleLogging
  \/ \E ok \in Shutter1Connects : pushTickDataIfReady(ok)
  \/ \E ok \in Shutter1Connects : pushInterruptDataIfReady(ok)

SpecPush == InitPush /\ [][NextPush]_vars

\* C18: a run that starts while neither limit switch of its motor is asserted
\* leaves the recorder out of a full run for the whole run, so that its stop
\* produces no record.  Here: the first tick that meets a motor started since
\* the tick before, with neither switch asserted, leaves full_run_active false.
C18_MidTravelRun ==
  \A m \in Motors : \A in \in RecorderInputs :
    ( /\ motdir[m] # 0 /\ runTicks[m] = 0 /\ prev_dir[m] # motdir[m]
      /\ ~limopen[m] /\ ~limclosed[m]
      /\ IsrResult(in).mot[m].dir # 0 )
    => ~Tracked(m, in).active

\* C19: a run that started at a limit switch gets exactly one record at the
\* tick that observes its stop: a full-run record when the switch it was
\* heading for is asserted, an interrupt record otherwise, with the ticks
\* counted during the run, and the recorder is out of the full run afterwards.
\* Here: a full run the recorder follows whose motor was stopped since the tick
\* before, or is stopped by this tick, is recorded by this tick.
C19_BoundaryRun ==
  \A m \in Motors : \A in \in RecorderInputs :
    LET T == Tracked(m, in)
    IN ( /\ full_run_active[m] /\ prev_dir[m] # 0
         /\ (motdir[m] # prev_dir[m] \/ IsrResult(in).mot[m].dir = 0) )
       => /\ ~T.active
          /\ IF AtTarget(TrackState(m), limopen[m], limclosed[m])
             THEN /\ T.ready /\ ~(T.iready /\ ~interrupt_ready[m])
                  /\ T.lastdir = (IF was_closing[m] THEN 1 ELSE 2)
                  /\ (IF was_closing[m] THEN T.lastc ELSE T.lasto) = tick_counter[m]
             ELSE /\ T.iready /\ ~(T.ready /\ ~data_ready[m])
                  /\ T.idir = (IF was_closing[m] THEN 1 ELSE 2)
                  /\ T.iticks = tick_counter[m]

\* C20: with tick logging enabled a queued record is pushed at most once: a
\* step that tries a connection for a motor's record finds the record queued
\* and logging enabled and leaves its ready flag clear, whether the connection
\* succeeded or failed, so that no record ever has a second connection tried.
C20_PushOnce ==
  /\ [](\A m \in Motors : Len(tick_pushes[m]) <= 1 /\ Len(interrupt_pushes[m]) <= 1)
  /\ [][\A m \in Motors :
          /\ Len(tick_pushes'[m]) > Len(tick_pushes[m])
               => tickLoggingEnabled /\ data_ready[m] /\ ~data_ready'[m]
          /\ Len(interrupt_pushes'[m]) > Len(interrupt_pushes[m])
               => tickLoggingEnabled /\ interrupt_ready[m] /\ ~interrupt_ready'[m]]_vars

\* a full-run record and an interrupt record of shutter 1 whose only
\* connections failed, both flags clear
C20_Witness ==
  /\ tickLoggingEnabled
  /\ tick_pushes[1] = <<FALSE>> /\ ~data_ready[1]
  /\ interrupt_pushes[1] = <<FALSE>> /\ ~interrupt_ready[1]

\* ---------------------------------------------- logging across a restart
\* The shutter of SpecPush on a controller that may restart at any time.

NextLogging ==
  \/ NextPush
  \/ Restart

SpecLogging == InitPush /\ [][NextLogging]_vars

\* C21: tick logging is disabled after every restart, each letter L of the web
\* client flips the flag and nothing else changes it, and while logging is
\* disabled no step tries a connection to the logging server.
C21_LoggingSwitch ==
  /\ [][Restart => ~tickLoggingEnabled']_vars
  /\ [][WebToggleLogging => tickLoggingEnabled' = ~tickLoggingEnabled]_vars
  /\ [][tickLoggingEnabled' # tickLoggingEnabled => WebToggleLogging \/ Restart]_vars
  /\ [][\A m \in Motors :
          ~tickLoggingEnabled =>
            /\ Len(tick_pushes'[m]) <= Len(tick_pushes[m])
            /\ Len(interrupt_pushes'[m]) <= Len(interrupt_pushes[m])]_vars

\* logging is disabled, shutter 1 has a full-run record queued that no
\* connection was tried for, and its interrupt record was dropped untried
C21_Witness ==
  /\ ~tickLoggingEnabled /\ ethernet_initialized
  /\ data_ready[1] /\ tick_pushes[1] = <<>>
  /\ interrupt_direction[1] # 0 /\ ~interrupt_ready[1] /\ interrupt_pushes[1] = <<>>

\* ------------------------------------------------------ the status query
\* Both shutters are driven from the web client, time out and meet their limit
\* switches, which come and go; the cable is pulled and the monitor closes the
\* dome; a web client asks for the plain text status at any moment.

InitStatus ==
  /\ Boot(CntCap)
  /\ link /\ ethernet_initialized
  /\ totalIpFailures = 0 /\ totalAutoCloses = 0
  /\ dayCounter = 0 /\ sinceSave = SaveInterval + 1

NextStatus ==
  \/ WebStatus
  \/ \E m \in Motors, d \in {OPEN, CLOSE} : WebMotorCmd(m, d)
  \/ WebStopAll
  \/ SensorChange
  \/ \E in \in QuietInputs : TickControl(in)
  \/ CablePulled
  \/ CableMonitor

SpecStatus == InitStatus /\ [][NextStatus]_vars

\* C22: the status query answers CLOSED exactly when the limit switches that
\* end the closing travel of both motors are asserted, OPEN otherwise, and
\* changes no motor, monitor or counter variable.
C22_StatusQuery ==
  [][(WebStatus \/ statusReply' # statusReply) =>
       /\ statusReply' = (IF \A m \in Motors : LimitOf(m, OPEN)
                          THEN "CLOSED" ELSE "OPEN")
       /\ UNCHANGED <<motorVars, monitorVars, counterVars>>]_vars

\* the dome is reported CLOSED while motor 1, both closed-end switches still
\* asserted, is running toward open; the cable monitor has closed shutter 2
C22_Witness ==
  /\ statusReply = "CLOSED"
  /\ \A m \in Motors : limopen[m] /\ ~limclosed[m]
  /\ motdir[1] = CLOSE
  /\ cableRemovalAutoCloseTriggered

\* ------------------------------------------------ a controller without cable
\* The controller boots without a cable.  Shutter 1 is driven from the web
\* client, the closed-end switches come and go, the cable is plugged and
\* pulled, the clock advances one probe interval at a time, and the watchdog
\* looks for a cable and checks the health of the Ethernet stack.

CableCheck == \E cableDue, ipUp \in BOOLEAN :
                networkWatchdog(cableDue, FALSE, FALSE, FALSE, ipUp)

InitStandalone ==
  /\ Boot(CntCap)
  /\ ~link
  /\ limclosed = [m \in Motors |-> FALSE]
  /\ totalIpFailures = 0 /\ totalAutoCloses = 0
  /\ dayCounter = 0 /\ sinceSave = SaveInterval + 1

NextStandalone ==
  \/ MonitorStep
  \/ CableCheck
  \/ HealthCheck
  \/ LinkChange
  \/ ProbeInterval
  \/ \E d \in {OPEN, CLOSE} : WebMotorCmd(1, d)
  \/ \E m \in Motors : LimOpenChange(m)

SpecStandalone == InitStandalone /\ [][NextStandalone]_vars

\* C23: while networkMonitoringEnabled is false the monitor leaves every
\* motor, monitor and counter variable as it is, whatever the link, the IP
\* stack and a probe would answer; and networkMonitoringEnabled, once true,
\* stays true.
C23_Standalone ==
  /\ [](~networkMonitoringEnabled =>
          \A ipLost, connected, ipUp \in BOOLEAN :
            MonitorResult(MonitorState, ipLost, connected, ipUp) = MonitorState)
  /\ [][networkMonitoringEnabled => networkMonitoringEnabled']_vars

\* no cable was ever detected although one is plugged by now; the dome is
\* open, motor 1 is opening and a probe would be due
C23_Witness ==
  /\ ~networkMonitoringEnabled /\ link
  /\ ~limopen[1] /\ motdir[1] = CLOSE
  /\ sinceAttempt >= connectCheckInterval

\* C24: when the monitor finds the cable removed, with monitoring enabled and
\* the removal not yet handled, a shutter that is opening is closing when the
\* monitor step ends, wherever the shutter is.
C24_CableReversesOpening ==
  \A m \in Motors : \A ipLost, connected, ipUp \in BOOLEAN :
    (networkMonitoringEnabled /\ ~link /\ ~cableRemovalAutoCloseTriggered
       /\ motdir[m] = CLOSE)
    => MonitorResult(MonitorState, ipLost, connected, ipUp).mot[m].dir = OPEN

\* C25: the flag cableRemovalAutoCloseTriggered is false after every monitor
\* step that runs while the link is present, so that the next removal finds it
\* clear, and no monitor step that runs while the link is absent clears it.
C25_FlagClearedOnLink ==
  \A ipLost, connected, ipUp \in BOOLEAN :
    LET M == MonitorResult(MonitorState, ipLost, connected, ipUp)
    IN  /\ link => ~M.trig
        /\ (~link /\ cableRemovalAutoCloseTriggered) => M.trig

\* --------------------------------------------------- the hardware watchdog
\* The time loop() spends between two wdt_reset() calls.  Only the time is
\* followed here: which branches a call takes and how long a connection
\* takes are inputs, every other variable stays as setup() left it.
\* incrementDayCounter() and saveCountersToEEPROM() take no time that counts
\* in units of 10 ms.

\* the outcomes of the attempts of one setupEthernet() call: it returns at
\* the first attempt that finds the link and the IP address
SetupResults ==
  {r \in UNION {[1..n -> BOOLEAN] : n \in 1..SetupAttempts} :
     /\ \A i \in 1..(Len(r) - 1) : ~r[i]
     /\ Len(r) < SetupAttempts => r[Len(r)]}

\* one attempt: chip select pulse, Ethernet.begin, stabilisation, and the
\* retry delay if the link or the address is missing
AttemptTime(ok) ==
  ResetPulse + ResetPulse + StabilizeDelay + (IF ok THEN 0 ELSE RetryDelay)

RECURSIVE SetupEthernetTime(_)
SetupEthernetTime(results) ==
  IF results = <<>> THEN 0
  ELSE AttemptTime(Head(results)) + SetupEthernetTime(Tail(results))

\* the calls of setupEthernet() one handler makes, none or some
SetupCalls == SetupResults \cup {<<>>}

\* time passes without a wdt_reset()
Spend(e, t) == Min(e + t, WDTO_8S)

\* wdt_reset(): too late once the watchdog period has passed
Checkpoint(e) == IF e >= WDTO_8S THEN e ELSE 0

LoopGoes(from, to) ==
  /\ loopAt = from
  /\ loopAt' = to
  /\ UNCHANGED <<motorVars, buttonVars, sensorVars, netVars, monitorVars,
                 counterVars, storeVars, recorderVars, webVars, preemptVars>>

\* loop(): "Pet the watchdog - must be called within 8 seconds"
TimedWdtReset ==
  /\ LoopGoes("wdt_reset", "networkWatchdog")
  /\ wdtElapsed' = Checkpoint(wdtElapsed)

\* networkWatchdog(): setupEthernet() for a cable found or a lost IP stack,
\* and once more for the hourly reset
TimedNetworkWatchdog ==
  /\ LoopGoes("networkWatchdog", "checkRemoteConnectionAndAutoClose")
  /\ \E recovery \in SetupCalls, hourly \in SetupCalls :
       wdtElapsed' = Spend(Spend(wdtElapsed, SetupEthernetTime(recovery)),
                           SetupEthernetTime(hourly))

\* checkRemoteConnectionAndAutoClose(): setupEthernet() for the auto-recovery
\* or the IP recovery, then the probe between two wdt_reset()
TimedMonitor ==
  /\ LoopGoes("checkRemoteConnectionAndAutoClose", "pushTickDataIfReady")
  /\ \E recovery \in SetupCalls, probe \in BOOLEAN, connectTime \in {0, ProbeTimeout} :
       LET e == Spend(wdtElapsed, SetupEthernetTime(recovery))
       IN  wdtElapsed' = IF probe
                           THEN Checkpoint(Spend(Checkpoint(e), connectTime))
                           ELSE e

\* one record of a push function: wdt_reset(), connect, send, wdt_reset()
PushTime(e, ready, connectTime) ==
  IF ready THEN Checkpoint(Spend(Checkpoint(e), connectTime + LogSendDelay))
           ELSE e

TimedPush(from, to) ==
  /\ LoopGoes(from, to)
  /\ \E ready \in [Motors -> BOOLEAN], connectTime \in [Motors -> {0, LogTimeout}] :
       wdtElapsed' = PushTime(PushTime(wdtElapsed, ready[1], connectTime[1]),
                              ready[2], connectTime[2])

TimedPushTick == TimedPush("pushTickDataIfReady", "pushInterruptDataIfReady")

TimedPushInterrupt == TimedPush("pushInterruptDataIfReady", "handleWebClient")

\* handleWebClient(): no client, or a request read for up to the timeout
TimedWebClient ==
  /\ LoopGoes("handleWebClient", "wdt_reset")
  /\ \E t \in 0..WebTimeout : wdtElapsed' = Spend(wdtElapsed, t)

InitWatchdog ==
  /\ Boot(CntCap)
  /\ link /\ ethernet_initialized
  /\ limopen = [m \in Motors |-> FALSE] /\ limclosed = [m \in Motors |-> TRUE]
  /\ totalIpFailures = 0 /\ totalAutoCloses = 0
  /\ dayCounter = 0 /\ sinceSave = 0

NextWatchdog ==
  \/ TimedWdtReset
  \/ TimedNetworkWatchdog
  \/ TimedMonitor
  \/ TimedPushTick
  \/ TimedPushInterrupt
  \/ TimedWebClient

SpecWatchdog == InitWatchdog /\ [][NextWatchdog]_vars

\* C26: the main loop reaches a wdt_reset() before the watchdog period of 8 s
\* has passed since the last one, on every path.
C26_WatchdogFed == wdtElapsed < WDTO_8S

\* C27: a motor closing for the failsafe that stops at its closed-end switch
\* keeps stop reason 3 at that tick and at the following ticks while it stays
\* off at the switch and the monitor has not run.  Here: the tick that stops
\* the motor and the tick right after it.
C27_FailsafeReasonKept ==
  \A m \in Motors : \A in \in QuietInputs :
    (motdir[m] = OPEN /\ AutoClosedByIP[m] /\ stopreason[m] = R_IPFAIL
       /\ limopen[m])
    => LET S1 == IsrResult(in)
           S2 == IsrFrom(S1, in)
       IN  /\ S1.mot[m].dir = 0 /\ S1.mot[m].reason = R_IPFAIL
           /\ S2.mot[m].dir = 0 /\ S2.mot[m].reason = R_IPFAIL

\* C28: a request for the direction opposite to the one a motor is running in
\* never makes it run in the requested direction: the direction a tick leaves
\* is never the opposite of the direction the tick before left, there is a
\* tick that finds the motor off in between.
C28_NoDirectReversal ==
  \A m \in Motors : \A in \in RecorderInputs :
    LET d == IsrResult(in).mot[m].dir
    IN  (prev_dir[m] # 0 /\ d # 0) => d = prev_dir[m]

\* what the connection check finds when it is reached with the link up
ProbeInput(ipLost, ipUp) ==
  IpRecovery(AutoRecovery(CableBack(MonitorState), ipLost, ipUp), ipLost, ipUp)

\* the monitor reaches the connection check, the probe is due and it fails
ProbeFails(ipLost, connected, ipUp) ==
  LET M == ProbeInput(ipLost, ipUp)
  IN  /\ networkMonitoringEnabled /\ domeIsNotFullyClosed /\ link
      /\ ProbeDue(M)
      /\ ~(~(~M.eth \/ ipLost) /\ M.eth /\ connected)

AtCountdown(m, in) ==
  LET S0 == [IsrState EXCEPT !.mot = [k \in Motors |-> CountTick(@[k])]]
      S1 == EmergencyStop(S0, in.stop)
  IN  LimitSwitchDetection(StopReasonManagement(S1.mot[m], limopen[m], limclosed[m]),
                           limopen[m], limclosed[m])

\* the countdown of that tick finds motor m running with its timer run out
CountdownExpires(m, in) == AtCountdown(m, in).dir # 0 /\ AtCountdown(m, in).timer = 0

\* the stop reason an expired countdown leaves on motor record r
ExpiredReason(r) ==
  IF (r.reason = R_IPFAIL /\ r.auto) \/ r.reason = R_VCCFAIL THEN r.reason ELSE R_TIMEOUT

\* C30 (as amended): when the timeout countdown expires on a running motor the
\* countdown turns the motor off; its stop reason becomes Timeout (and the
\* failsafe flag is cleared) unless a failsafe reason (NetworkFailsafe with
\* the failsafe flag, or PowerFailsafe) is latched, which is kept with its
\* flag.  The motor is off with that reason at the end of the tick unless a
\* direction button of this motor is accepted later in the same tick, which
\* starts it as any idle motor: button direction, full timeout, stop reason
\* cleared, failsafe flag cleared, PWM level 0.
C30_TimeoutExpiry ==
  \A m \in Motors : \A in \in TickInputs :
    CountdownExpires(m, in) =>
      LET r == AtCountdown(m, in)
          c == TimeoutCountdown(r)
          post == IsrResult(in).mot[m]
      IN  /\ c.dir = 0 /\ c.reason = ExpiredReason(r)
          /\ c.auto = (r.auto /\ r.reason = R_IPFAIL)
          /\ post.speed = 0
          /\ IF post.dir = 0
               THEN post.reason = ExpiredReason(r) /\ post.auto = c.auto
               ELSE \E b \in in.down :
                      /\ ButtonMotor(b) = m /\ ~pressed_flag[b] /\ cnt >= DebounceTicks
                      /\ ~LimitOf(m, ButtonDir(b))
                      /\ post.dir = ButtonDir(b)
                      /\ post.timer = MaxTimer(m, ButtonDir(b))
                      /\ post.reason = R_LIMIT /\ ~post.auto

\* C30 witness: the auto-close of shutter 1 has run its full timeout without
\* reaching the closed-end switch; the tick turns the motor off and keeps the
\* NetworkFailsafe reason and the failsafe flag.
C30_Witness ==
  /\ motdir[1] = OPEN /\ mottimer[1] = 0 /\ ~limopen[1]
  /\ AutoClosedByIP[1] /\ stopreason[1] = R_IPFAIL
  /\ \A in \in QuietInputs :
       /\ CountdownExpires(1, in)
       /\ IsrResult(in).mot[1].dir = 0
       /\ IsrResult(in).mot[1].reason = R_IPFAIL
       /\ IsrResult(in).mot[1].auto

\* C30 as stated: the motor is off when the tick ends, with Timeout or the
\* latched reason.
C30_Original ==
  \A m \in Motors : \A in \in TickInputs :
    CountdownExpires(m, in) =>
      /\ IsrResult(in).mot[m].dir = 0
      /\ IsrResult(in).mot[m].reason = ExpiredReason(AtCountdown(m, in))

\* C31 (as amended): the failsafe flag of a motor is set by the monitor only,
\* together with a start toward the closed end; while it is set the stop
\* reason is NetworkFailsafe and the motor is either closing or has been
\* stopped by the timeout of that very close (off, timer run out).  A motor
\* that is opening, or that a web opcode has just started, has the flag clear,
\* and so has a motor that a tick's button has started.
C31_FailsafeOwned ==
  /\ [](\A m \in Motors :
          /\ AutoClosedByIP[m] =>
               /\ stopreason[m] = R_IPFAIL
               /\ \/ motdir[m] = OPEN
                  \/ /\ motdir[m] = 0 /\ mottimer[m] = 0
                     /\ runTicks[m] = MaxTimer(m, OPEN) + 1
          /\ \A in \in TickInputs :
               LET post == IsrResult(in).mot[m]
               IN  /\ post.auto => AutoClosedByIP[m]
                   /\ (post.dir # 0 /\ motdir[m] = 0) => ~post.auto)
  /\ [][\A m \in Motors :
          /\ (AutoClosedByIP'[m] /\ ~AutoClosedByIP[m]) =>
               /\ \E connected \in BOOLEAN : MonitorControl(FALSE, connected, TRUE)
               /\ motdir'[m] = OPEN /\ mottimer'[m] = MaxTimer(m, OPEN)
          /\ (\E d \in {OPEN, CLOSE} : WebMotorCmd(m, d) /\ motdir'[m] = d) =>
               ~AutoClosedByIP'[m]]_vars

\* C31 witness: the auto-close of shutter 1 has timed out; the motor is off
\* and still carries the failsafe flag with the NetworkFailsafe reason.
C31_Witness ==
  /\ motdir[1] = 0 /\ AutoClosedByIP[1] /\ stopreason[1] = R_IPFAIL
  /\ mottimer[1] = 0 /\ runTicks[1] = MaxTimer(1, OPEN) + 1

\* C31 as stated: the failsafe flag is set on a closing motor only.
C31_Original ==
  \A m \in Motors : AutoClosedByIP[m] => motdir[m] = OPEN

\* ------------------------------- a start that the ISR can interrupt
\* The main loop writes a start as "mot1dir = OPEN; mot1timer = MAX_MOT1_OPEN;"
\* followed by the stop reason and the failsafe flag, with interrupts enabled:
\* TIMER2_COMPA can run between any two of these assignments.  mainAt holds
\* the handler's position while the direction is written and the rest is not.

\* web opcode 1-4 up to and including "mot<m>dir = <d>"
WebStartDir(m, d) ==
  /\ mainAt = InLoop
  /\ ~LimitOf(m, d)
  /\ SetMotor(m, [WebAutoStop(MotorRec(m), d) EXCEPT !.dir = d, !.run = 0])
  /\ mainAt' = [InLoop EXCEPT !.at = "web_timer", !.m = m, !.d = d]
  /\ UNCHANGED <<buttonVars, sensorVars, netVars, monitorVars, counterVars,
                 storeVars, recorderVars, webVars, wdtVars>>

\* the rest of the opcode: "mot<m>timer = MAX...; stop<m>reason = 0;
\* m<m>AutoClosedByIP = false;"
WebStartRest ==
  /\ mainAt.at = "web_timer"
  /\ SetMotor(mainAt.m, [MotorRec(mainAt.m) EXCEPT
                           !.timer = MaxTimer(mainAt.m, mainAt.d),
                           !.reason = R_LIMIT, !.auto = FALSE])
  /\ mainAt' = InLoop
  /\ UNCHANGED <<buttonVars, sensorVars, netVars, monitorVars, counterVars,
                 storeVars, recorderVars, webVars, wdtVars>>

\* the cable-removal close up to and including "mot1dir = OPEN"
CableCloseDir ==
  /\ mainAt = InLoop
  /\ networkMonitoringEnabled /\ domeIsNotFullyClosed
  /\ ~link /\ ~cableRemovalAutoCloseTriggered
  /\ AutoCloseNeeded(MotorRec(1), 1)
  /\ SetMotor(1, [MotorRec(1) EXCEPT !.dir = OPEN, !.run = 0])
  /\ mainAt' = [InLoop EXCEPT !.at = "close_timer", !.m = 1, !.d = OPEN]
  /\ UNCHANGED <<buttonVars, sensorVars, netVars, monitorVars, counterVars,
                 storeVars, recorderVars, webVars, wdtVars>>

\* the rest of the cable-removal close: timer, flag and reason of shutter 1,
\* shutter 2, totalAutoCloses++, the save and the once-per-removal flag
CableCloseRest ==
  /\ mainAt.at = "close_timer"
  /\ LET M0 == MonitorState
         M1 == [M0 EXCEPT
                  !.mot = [m \in Motors |->
                             IF m = 1
                               THEN [@[m] EXCEPT !.timer = MaxTimer(1, OPEN),
                                                 !.auto = TRUE, !.reason = R_IPFAIL]
                               ELSE AutoCloseMotor(@[m], m)],
                  !.acl = CountAutoClose(@, TRUE),
                  !.trig = TRUE]
         M == SaveAutoClose(M1, TRUE)
     IN  SetMonitor(M) /\ SetStore(M.st)
  /\ mainAt' = InLoop
  /\ UNCHANGED <<buttonVars, sensorVars, link, networkMonitoringEnabled,
                 recorderVars, webVars, wdtVars>>

InitStart == InitIsr

NextStart ==
  \/ \E in \in QuietInputs : TickControl(in)
  \/ \E d \in {OPEN, CLOSE} : WebStartDir(1, d)
  \/ WebStartRest
  \/ CableCloseDir
  \/ CableCloseRest
  \/ mainAt = InLoop /\ WebStopAll
  \/ mainAt = InLoop /\ CableMonitor
  \/ LimOpenChange(1)
  \/ LinkChange

SpecStart == InitStart /\ [][NextStart]_vars

\* C32: however a tick falls between the assignments of a start made by the
\* main loop (web opcode 1-4 or auto-close), the timeout never stops a motor
\* before it has run its calibrated timeout, and when the start request is
\* complete the motor runs in the requested direction with the timeout
\* loaded.
C32_StartNotTorn ==
  /\ [](\A m \in Motors :
          (motdir[m] = 0 /\ stopreason[m] = R_TIMEOUT) =>
            runTicks[m] = TimeoutTicks + 1)
  /\ [][(mainAt.at \in {"web_timer", "close_timer"} /\ mainAt'.at = "loop") =>
          /\ motdir'[mainAt.m] = mainAt.d
          /\ mottimer'[mainAt.m] = MaxTimer(mainAt.m, mainAt.d)]_vars

\* ------------------------------------- a push that the ISR can interrupt
\* pushTickDataIfReady() reads the record of motor 1, waits in
\* logClient.connect() for up to 2 s, prints the request and clears
\* m1_data_ready, all with interrupts enabled.

\* the tick count the push reads for the direction of the last record
LastTicks(m, d) == IF d = 1 THEN last_ticks_closing[m] ELSE last_ticks_opening[m]

\* "word ticks = (m1_last_direction == 1) ? m1_last_ticks_closing : ..."
PushBegin ==
  /\ mainAt = InLoop
  /\ PushReady /\ data_ready[1]
  /\ mainAt' = [InLoop EXCEPT !.at = "push_connect", !.m = 1,
                              !.d = last_direction[1],
                              !.ticks = LastTicks(1, last_direction[1])]
  /\ UNCHANGED <<motorVars, buttonVars, sensorVars, netVars, monitorVars,
                 counterVars, storeVars, recorderVars, webVars, wdtVars>>

\* logClient.connect() returns; on success the request is printed:
\* "logClient.print(m1_last_direction); ... logClient.print(ticks);"
PushSend(ok) ==
  /\ mainAt.at = "push_connect"
  /\ mainAt' = [mainAt EXCEPT !.at = "push_clear",
                              !.sent = IF ok THEN last_direction[1] ELSE 0]
  /\ UNCHANGED <<motorVars, buttonVars, sensorVars, netVars, monitorVars,
                 counterVars, storeVars, recorderVars, webVars, wdtVars>>

\* "m1_data_ready = false;  // Clear flag regardless of success"
PushClear ==
  /\ mainAt.at = "push_clear"
  /\ data_ready' = [data_ready EXCEPT ![1] = FALSE]
  /\ tick_pushes' = [tick_pushes EXCEPT ![1] = Connected(@, mainAt.sent # 0)]
  /\ mainAt' = InLoop
  /\ UNCHANGED <<motorVars, buttonVars, sensorVars, netVars, monitorVars,
                 counterVars, storeVars, tickLoggingEnabled, trackVars,
                 last_ticks_closing, last_ticks_opening, last_direction,
                 interrupt_ticks, interrupt_direction, interrupt_ready,
                 interrupt_pushes, webVars, wdtVars>>

InitPushRace == InitPush

NextPushRace ==
  \/ \E in \in RecorderInputs : Tick(in)
  \/ \E d \in {OPEN, CLOSE} : mainAt = InLoop /\ WebMotorCmd(1, d)
  \/ Arrive(1)
  \/ Leave(1)
  \/ mainAt = InLoop /\ WebToggleLogging
  \/ PushBegin
  \/ \E ok \in BOOLEAN : PushSend(ok)
  \/ PushClear

SpecPushRace == InitPushRace /\ [][NextPushRace]_vars

\* C33: the record slot of a motor is latest-wins however the ticks fall into
\* a push: the direction and the tick count that are sent belong to one run
\* (the record the push began with, or the record in the slot now), and a
\* record that replaced the one the push began with is either the one sent or
\* still marked ready when the push has cleared the flag.
C33_LatestWins ==
  /\ []((mainAt.at = "push_clear" /\ mainAt.sent # 0) =>
          \/ mainAt.sent = mainAt.d
          \/ /\ mainAt.sent = last_direction[1]
             /\ mainAt.ticks = LastTicks(1, last_direction[1]))
  /\ [][(/\ mainAt.at = "push_clear" /\ mainAt'.at = "loop"
         /\ <<last_direction[1], LastTicks(1, last_direction[1])>>
              # <<mainAt.d, mainAt.ticks>>) =>
          \/ data_ready'[1]
          \/ /\ mainAt.sent = last_direction[1]
             /\ mainAt.ticks = LastTicks(1, last_direction[1])]_vars

\* ----------------------------------- a rescind that the ISR can interrupt
\* After a successful probe the monitor tests "m1AutoClosedByIP && mot1dir ==
\* OPEN" and, if so, writes "mot1dir = 0; stop1reason = 0; m1AutoClosedByIP =
\* false;" with interrupts enabled.

\* the monitor up to and including the test for shutter 1, which holds: the
\* probe was due and succeeded, the counters are reset
RescindTest ==
  /\ mainAt = InLoop
  /\ networkMonitoringEnabled /\ domeIsNotFullyClosed /\ link
  /\ ProbeDue(ProbeInput(FALSE, TRUE)) /\ ProbeInput(FALSE, TRUE).eth
  /\ AutoClosedByIP[1] /\ motdir[1] = OPEN
  /\ SetMonitor([MonitorResult(MonitorState, FALSE, TRUE, TRUE)
                   EXCEPT !.mot = [m \in Motors |-> MotorRec(m)]])
  /\ mainAt' = [InLoop EXCEPT !.at = "rescind_write", !.m = 1]
  /\ UNCHANGED <<buttonVars, sensorVars, link, networkMonitoringEnabled,
                 storeVars, recorderVars, webVars, wdtVars>>

\* the three assignments to shutter 1, then the test and the assignments
\* for shutter 2
RescindWrite ==
  /\ mainAt.at = "rescind_write"
  /\ SetMotors([m \in Motors |->
                  IF m = 1
                    THEN [MotorRec(m) EXCEPT !.dir = 0, !.reason = R_LIMIT,
                                             !.auto = FALSE]
                    ELSE Rescind(MotorRec(m))])
  /\ mainAt' = InLoop
  /\ UNCHANGED <<buttonVars, sensorVars, netVars, monitorVars, counterVars,
                 storeVars, recorderVars, webVars, wdtVars>>

InitRescind ==
  /\ Boot(CntCap)
  /\ link /\ ethernet_initialized
  /\ ~limopen[1] /\ ~limclosed[1]
  /\ limopen[2] /\ ~limclosed[2]
  /\ totalIpFailures = 0 /\ totalAutoCloses = 0
  /\ dayCounter = 0 /\ sinceSave = 0

NextRescind ==
  \/ \E in \in Shutter1Inputs : TickControl(in)
  \/ mainAt = InLoop /\ MonitorControl(FALSE, TRUE, TRUE)
  \/ RescindTest
  \/ RescindWrite
  \/ LinkChange
  \/ Advance(connectCheckInterval, connectCheckInterval)

SpecRescind == InitRescind /\ [][NextRescind]_vars

\* C34: however the ticks fall into the monitor's handling of a successful
\* probe, the rescind is written only on a motor that is failsafe-owned and
\* closing at the moment of the write: the write neither turns off a motor
\* the operator has started in between nor replaces a stop reason a tick has
\* set in between.
C34_RescindOwnedOnly ==
  [][(mainAt.at = "rescind_write" /\ mainAt'.at = "loop") =>
       IF AutoClosedByIP[1] /\ motdir[1] = OPEN
         THEN motdir'[1] = 0 /\ stopreason'[1] = R_LIMIT /\ ~AutoClosedByIP'[1]
         ELSE /\ motdir'[1] = motdir[1]
              /\ stopreason'[1] = stopreason[1]
              /\ AutoClosedByIP'[1] = AutoClosedByIP[1]]_vars

\* ------------------------------------------------ every run comes to an end
\* TIMER2_COMPA fires every 16 ms whatever the main loop does: the tick is
\* taken again and again.

\* the buttons are up, SWSTOP is pressed or not
StopInputs == {in \in TickInputs : in.down = {}}

IsrTick == \E in \in StopInputs : TickControl(in)

InitFair == InitIsr

NextFair ==
  \/ IsrTick
  \/ \E d \in {OPEN, CLOSE} : WebMotorCmd(1, d)
  \/ LimOpenChange(1)
  \/ LimClosedChange(1)
  \/ CablePulled
  \/ CableMonitor

SpecFair == InitFair /\ [][NextFair]_vars /\ WF_vars(IsrTick)

\* a start command takes effect on motor m: a button, a web opcode or an
\* auto-close gives it a direction and a fresh timeout
StartStep(m) ==
  /\ motdir'[m] # 0 /\ runTicks'[m] = 0
  /\ motdir[m] # motdir'[m] \/ runTicks[m] # 0

\* C35: a running motor has seen at most its calibrated timeout in ticks since
\* its last start command, the next tick stops it when the timeout has run
\* out, and, with the ISR ticking, a running motor is eventually off unless
\* start commands for it come again and again.
C35_RunsEnd ==
  /\ [](\A m \in Motors :
          motdir[m] # 0 =>
            /\ runTicks[m] <= MaxTimer(m, motdir[m])
            /\ runTicks[m] = MaxTimer(m, motdir[m]) =>
                 \A in \in TickInputs : IsrResult(in).mot[m].run = 0
                                        \/ IsrResult(in).mot[m].dir = 0)
  /\ \A m \in Motors :
       \/ []<><<StartStep(m)>>_vars
       \/ (motdir[m] # 0 ~> motdir[m] = 0)

\* C35 witness: motor 1 has run its whole timeout without reaching a limit
\* switch; the next tick turns it off.
C35_Witness ==
  /\ motdir[1] # 0 /\ runTicks[1] = MaxTimer(1, motdir[1]) /\ mottimer[1] = 0
  /\ ~LimitOf(1, motdir[1])
  /\ \A in \in QuietInputs : IsrResult(in).mot[1].dir = 0

\* C36: whatever the monitor finds, it leaves each motor's direction as it
\* is, changes it to closing (OPEN, the command that closes the dome) or turns
\* the motor off: it never makes a motor run toward the open end, and it turns
\* off only a motor that was failsafe-owned and closing.
C36_MonitorClosesOrIdles ==
  \A ipLost, connected, ipUp \in BOOLEAN : \A m \in Motors :
    LET post == MonitorResult(MonitorState, ipLost, connected, ipUp).mot[m]
    IN  /\ post.dir # motdir[m] => post.dir \in {0, OPEN}
        /\ post.dir = CLOSE => motdir[m] = CLOSE
        /\ (post.dir = 0 /\ motdir[m] # 0) => (AutoClosedByIP[m] /\ motdir[m] = OPEN)

\* C36 witness: shutter 1 is opening under a web command away from its
\* closed-end switch; the cable is out and not yet handled, so the monitor
\* turns shutter 1 round toward closed, failsafe-owned.
C36_Witness ==
  /\ networkMonitoringEnabled /\ ~link /\ ~cableRemovalAutoCloseTriggered
  /\ motdir[1] = CLOSE /\ ~limopen[1] /\ ~AutoClosedByIP[1]
  /\ MonitorResult(MonitorState, FALSE, TRUE, TRUE).mot[1].dir = OPEN
  /\ MonitorResult(MonitorState, FALSE, TRUE, TRUE).mot[1].auto

\* ------------------------------------------- a run that is turned round
\* Shutter 1 is started and turned round from the web client and by the
\* cable auto-close, never stopped by a command: the opcodes arrive when the
\* limit switch of their direction is clear, so that a command that reaches a
\* running motor is a reversal.  runTicks then counts the ticks the motor has
\* seen since it was last started or turned round.

WebStartOrReverse(m, d) == motdir[m] # d /\ ~LimitOf(m, d) /\ WebMotorCmd(m, d)

InitReverse == InitRecorder

NextReverse ==
  \/ \E in \in RecorderInputs : Tick(in)
  \/ \E d \in {OPEN, CLOSE} : WebStartOrReverse(1, d)
  \/ Arrive(1)
  \/ Leave(1)
  \/ CablePulled
  \/ CableMonitor

SpecReverse == InitReverse /\ [][NextReverse]_vars

\* the tick with input in records a full run of motor m as valid
ValidRecorded(m, in) ==
  /\ Recorded(TrackState(m), IsrResult(in).mot[m].dir)
  /\ AtTarget(TrackState(m), limopen[m], limclosed[m])

\* C37: a run that is recorded as valid went in one direction from its start
\* to its stop: no command has turned the motor round since the recorder saw
\* it start, so that the ticks counted for the record are the ticks since the
\* motor's last start command, and the recorded direction is the direction
\* the motor had when it reached the limit switch.  (Stated for the ticks that
\* stop the motor themselves.)
C37_ValidRunOneDirection ==
  \A m \in Motors : \A in \in RecorderInputs :
    (ValidRecorded(m, in) /\ motdir[m] # 0) =>
      /\ tick_counter[m] = Min(runTicks[m], TickCap)
      /\ was_closing[m] = (motdir[m] = OPEN)
      /\ Tracked(m, in).lastdir = (IF motdir[m] = OPEN THEN 1 ELSE 2)

\* --------------------------------------------- logging is switched on once
\* The shutter of SpecPush with tick logging off since the restart; the web
\* client switches it on and never off again, so that a record that is queued
\* when logging comes on reports a run that ended while logging was off.

WebEnableLogging == ~tickLoggingEnabled /\ WebToggleLogging

InitEnable == InitPush

NextEnable ==
  \/ \E in \in RecorderInputs : Tick(in)
  \/ WebMotorCmd(1, CLOSE)
  \/ WebStopAll
  \/ Arrive(1)
  \/ Leave(1)
  \/ WebEnableLogging
  \/ \E ok \in Shutter1Connects : pushTickDataIfReady(ok)
  \/ \E ok \in Shutter1Connects : pushInterruptDataIfReady(ok)

SpecEnable == InitEnable /\ [][NextEnable]_vars

\* C38: a record of a run that ended while tick logging was off is discarded,
\* a valid record as well as an interrupt record: when logging is switched on
\* no record is queued, so that every connection tried afterwards is for a
\* run that ended with logging on.
C38_DisabledRecordsDropped ==
  [][(~tickLoggingEnabled /\ tickLoggingEnabled') =>
       \A m \in Motors : ~data_ready[m] /\ ~interrupt_ready[m]]_vars

\* ------------------------------------------------ the dirty flag and the store

\* C39: whenever eepromDirty is clear, the EEPROM holds the totalIpFailures
\* and the totalAutoCloses that are in memory; the flag is clear after a
\* load (a restart or the first boot) and after a save that wrote, and the
\* reset of the counters and the day counter's increment keep the property.
C39_CleanMeansSaved ==
  /\ [](~eepromDirty => /\ StoredIpFailures = totalIpFailures
                        /\ StoredAutoCloses = totalAutoCloses)
  /\ [][(Restart \/ FirstBoot \/ (LoopSave /\ SaveDue(StoreState))) =>
          ~eepromDirty']_vars
  /\ [][(WebResetCounters \/ LoopDay) => eepromDirty' = (eepromDirty \/ LoopDay)]_vars

\* C39 witness: without a restart (the debounce counter is where the boot
\* left it) failures and an auto-close were counted and a rate-limited save
\* has written them and cleared the flag.
C39_Witness ==
  /\ cnt = CntCap /\ ~eepromDirty /\ sinceSave < connectCheckInterval
  /\ totalIpFailures >= 1 /\ totalAutoCloses = 1
  /\ StoredIpFailures = totalIpFailures /\ StoredAutoCloses = 1

====
